---- MODULE Spec2Model ----
(***************************************************************************)
(* Model of the point-of-interest aggregation code of the repository:      *)
(*   - the OpenAQ route   (src/src/app/api/openaq/route.ts)                *)
(*   - the WAQI route     (src/unnamed/part_010, from line 85)             *)
(*   - the healthcare finder (src/unnamed/part_007)                        *)
(*                                                                         *)
(* Representation.                                                         *)
(*   Time (Date.now()) is counted in minutes, so 5 * 60 * 1000 ms is 5.    *)
(*   Air-quality coordinates are integers in hundredths of a degree and    *)
(*   their distances are whole kilometres; healthcare coordinates are      *)
(*   integers in 1e-5 degree and their distances are whole metres.         *)
(*   A JSON body or upstream element is a record; a field that is absent   *)
(*   (undefined) is absent from the record's DOMAIN.                       *)
(***************************************************************************)
EXTENDS Integers, Sequences, FiniteSets, TLC

VARIABLES
    now,          \* Date.now(), in minutes
    openaqCache,  \* route.ts `cache`: key -> [data, timestamp]
    waqiCache,    \* part_010 `cache`: key -> [data, timestamp]
    searchCache,  \* part_007 `searchCache`: key -> [result, timestamp]
    last,         \* the call that completed most recently (what the caller saw)
    prev,         \* the call that completed before `last`
    nreq,         \* number of calls started so far
    svc,          \* the service this behaviour follows (they share no state)
    pending,      \* the queries awaiting an upstream answer that never comes
    today,        \* the calendar date, as a day number
    profiles,     \* table `profiles`: userKey -> profile
    exposures,    \* table `exposures`, in order of insertion
    txn,          \* the running mutation of each client and how its last one ended
    calc,         \* the utility function applied last, its arguments and results
    tracker,      \* LocationService and the browser's geolocation it drives
    watchdog      \* convex_watchdog of scripts/start.sh

vars == <<now, openaqCache, waqiCache, searchCache, last, prev, nreq, svc,
          pending, today, profiles, exposures, txn, calc, tracker, watchdog>>

\* The state of the query services and the state of the passport ledger.
queryVars == <<now, openaqCache, waqiCache, searchCache, last, prev, nreq>>
ledgerVars == <<today, profiles, exposures, txn>>

\* The state of the client-side utilities and of the container's watchdog.
hostVars == <<calc, tracker, watchdog>>

----------------------------------------------------------------------------
(* Bounds of the model *)

MaxTime == 12
MaxRequests == 2
MaxResults == 2
MaxDay == 4
MaxEvents == 3
MaxStarts == 3
MaxFixes == 2
MaxUpdates == 103
MaxChecks == 7

----------------------------------------------------------------------------
(* Generic helpers *)

Min(a, b) == IF a < b THEN a ELSE b
Max(a, b) == IF a > b THEN a ELSE b

Has(r, f) == f \in DOMAIN r

\* A faulty default, a tenth of the one given; C24 does not hold of it.
Faulty_OrDefault(r, f, d) == IF Has(r, f) /\ r[f] # 0 THEN r[f] ELSE d \div 10

\* JavaScript `x.f || d` for a numeric field: undefined and 0 are falsy.
OrDefault(r, f, d) == IF Has(r, f) /\ r[f] # 0 THEN r[f] ELSE d

\* A record without its `cache` field: what the log keeps of a call.
Strip(r) == [f \in DOMAIN r \ {"cache"} |-> r[f]]

\* Sequences over S of length at most n.
SeqsUpTo(S, n) == UNION {[1..k -> S] : k \in 0..n}

\* Array.prototype.slice(0, n): a negative n counts from the end.
Slice(s, n) ==
    IF n < 0 THEN SubSeq(s, 1, Max(Len(s) + n, 0)) ELSE SubSeq(s, 1, Min(n, Len(s)))

RECURSIVE SqrtBS(_, _, _)
SqrtBS(n, lo, hi) ==
    IF lo >= hi THEN lo
    ELSE LET mid == (lo + hi + 1) \div 2
         IN IF mid * mid <= n THEN SqrtBS(n, mid, hi) ELSE SqrtBS(n, lo, mid - 1)

\* Math.sqrt on the integers (rounded down).
ISqrt(n) == SqrtBS(n, 0, 46340)

\* Array.prototype.sort((a, b) => a.distance - b.distance): a stable sort.
RECURSIVE InsertByDistance(_, _)
InsertByDistance(x, s) ==
    IF s = <<>> THEN <<x>>
    ELSE IF x.distance < Head(s).distance THEN <<x>> \o s
         ELSE <<Head(s)>> \o InsertByDistance(x, Tail(s))

RECURSIVE SortByDistance(_)
SortByDistance(s) ==
    IF s = <<>> THEN <<>>
    ELSE InsertByDistance(s[Len(s)], SortByDistance(SubSeq(s, 1, Len(s) - 1)))

----------------------------------------------------------------------------
(* TTL cache of the two air-quality routes (the code is the same in both) *)

CACHE_DURATION == 5

CacheFresh(cache, key, t) ==
    key \in DOMAIN cache /\ t - cache[key].timestamp < CACHE_DURATION

\* A faulty lookup, which returns the stored data whatever its age; C4 does
\* not hold of it.
Faulty_getCachedData(cache, key, t) ==
    IF key \in DOMAIN cache THEN <<cache[key].data>> ELSE <<>>

\* What getCachedData returns: <<>> for null, <<data>> for the stored data.
getCachedData(cache, key, t) ==
    IF CacheFresh(cache, key, t) THEN <<cache[key].data>> ELSE <<>>

\* The cache after getCachedData: a miss deletes the key.
CacheAfterGet(cache, key, t) ==
    IF getCachedData(cache, key, t) # <<>> THEN cache
    ELSE [k \in DOMAIN cache \ {key} |-> cache[k]]

\* The insertion time of the entry a lookup finds under `key`: <<>> when the
\* map holds none, <<timestamp>> otherwise.
EntryOf(cache, key) == IF key \in DOMAIN cache THEN <<cache[key].timestamp>> ELSE <<>>

\* A faulty store, which keeps nothing; C5 does not hold of it.
Faulty_setCachedData(cache, key, data, t) == cache

setCachedData(cache, key, data, t) ==
    [k \in DOMAIN cache \cup {key} |->
        IF k = key THEN [data |-> data, timestamp |-> t] ELSE cache[k]]

----------------------------------------------------------------------------
(* Geodesy of the two air-quality routes (the code is the same in both) *)

\* Math.abs.
Abs(x) == IF x < 0 THEN -x ELSE x

\* Math.cos(lat * Math.PI / 180) in thousandths, lat in hundredths of a degree
\* (second-order expansion, exact to a thousandth below 10 degrees).
CosMilli(lat) == 1000 - (lat * lat) \div 65660

\* A faulty distance, which takes the cosine of the first latitude for both
\* points; C23 does not hold of it.
Faulty_calculateDistance(lat1, lon1, lat2, lon2) ==
    LET dLat == lat2 - lat1
        dLon == Abs(lon2 - lon1)
        a == dLat * dLat
             + ((dLon * CosMilli(lat1)) \div 1000) * ((dLon * CosMilli(lat1)) \div 1000)
    IN (ISqrt(a) * 1112) \div 1000

\* Haversine distance in km between points given in hundredths of a degree.
\* R * Math.PI / 180 = 111.195 km per degree; for the separations of the model
\* (a few degrees) sin(x/2)^2 is (x/2)^2 and atan2(sqrt a, sqrt(1-a)) is sqrt a.
\* The sine is squared, so only the size of the difference in longitude counts.
calculateDistance(lat1, lon1, lat2, lon2) ==
    LET dLat == lat2 - lat1
        dLon == Abs(lon2 - lon1)
        a == dLat * dLat
             + ((dLon * CosMilli(lat1)) \div 1000) * ((dLon * CosMilli(lat2)) \div 1000)
    IN (ISqrt(a) * 1112) \div 1000

getBoundingBox(lat, lng, radiusKm) ==
    LET latDelta == (radiusKm * 100) \div 111
        lngDelta == (radiusKm * 100000) \div (111 * CosMilli(lat))
    IN [north |-> lat + latDelta, south |-> lat - latDelta,
        east |-> lng + lngDelta, west |-> lng - lngDelta]

----------------------------------------------------------------------------
(* What an upstream HTTP exchange can produce *)

\* outcome "ok": a 2xx answer with a parsed body; "http": a non-2xx status;
\* "notok": 2xx with a body whose status field is not "ok" (WAQI);
\* "throw": fetch rejects (network error, timeout of the platform).
Failures == {"http", "notok", "throw"}

\* Whether every upstream request of a query failed or supplied no record
\* (calls: the searchByBounds calls of the query, each with at most one request).
NoData(calls) ==
    \A i \in 1..Len(calls) : calls[i].calls = 1 /\ (calls[i].failed \/ calls[i].supplied = <<>>)

\* How many of the searchByBounds calls `calls` sent a request upstream.
Fetches(calls) == Cardinality({ i \in 1..Len(calls) : calls[i].calls = 1 })

\* The request modes of the POST handlers, in the order the code tests them.
ModeOf(body) ==
    IF ~Has(body, "lat") \/ ~Has(body, "lon") THEN "invalid"
    ELSE IF (Has(body, "mode") /\ body.mode = "radius") \/ OrDefault(body, "radius", 0) # 0
    THEN "radius"
    ELSE IF (Has(body, "mode") /\ body.mode = "bounds") \/ Has(body, "bounds")
    THEN "bounds"
    ELSE "single"

----------------------------------------------------------------------------
(* WAQI route, src/unnamed/part_010 *)

\* `!station || !station.lat || !station.lon`
WAQI_skipped(station) ==
    \/ ~Has(station, "lat") \/ station.lat = 0
    \/ ~Has(station, "lon") \/ station.lon = 0

WAQI_station(station) ==
    [name |-> station.name, lat |-> station.lat, lng |-> station.lon, source |-> "waqi"]

\* The loop over data.data: skip, push, stop once `limit` stations are held.
RECURSIVE WAQI_collect(_, _, _)
WAQI_collect(stationData, limit, stations) ==
    IF stationData = <<>> THEN stations
    ELSE IF WAQI_skipped(Head(stationData))
         THEN WAQI_collect(Tail(stationData), limit, stations)
         ELSE LET pushed == Append(stations, WAQI_station(Head(stationData)))
              IN IF Len(pushed) >= limit THEN pushed
                 ELSE WAQI_collect(Tail(stationData), limit, pushed)

WAQI_cacheKey(bounds) ==
    <<"waqi-bounds", bounds.north, bounds.south, bounds.east, bounds.west>>

\* A faulty search, which stores the empty list of a non-2xx answer; C28 does
\* not hold of it.
Faulty_WAQI_searchByBounds(cache, t, bounds, limit, resp) ==
    LET key == WAQI_cacheKey(bounds)
        cached == getCachedData(cache, key, t)
        cache1 == CacheAfterGet(cache, key, t)
        base == [key |-> key, limit |-> limit, time |-> t, hit |-> FALSE,
                 entry |-> EntryOf(cache, key),
                 calls |-> 1, threw |-> FALSE, failed |-> TRUE,
                 ret |-> <<>>, cache |-> cache1, supplied |-> <<>>]
    IN IF cached # <<>>
       THEN [base EXCEPT !.hit = TRUE, !.calls = 0, !.failed = FALSE,
                         !.ret = cached[1], !.cache = cache]
       ELSE IF resp.outcome = "throw" THEN [base EXCEPT !.threw = TRUE]
       ELSE IF resp.outcome = "http"
       THEN [base EXCEPT !.cache = setCachedData(cache1, key, <<>>, t)]
       ELSE IF resp.outcome = "notok" THEN base
       ELSE LET stations == WAQI_collect(resp.results, limit, <<>>)
            IN [base EXCEPT !.failed = FALSE, !.ret = stations,
                            !.supplied = resp.results,
                            !.cache = setCachedData(cache1, key, stations, t)]

\* searchByBounds(bounds, limit) at time t against cache `cache`, when the
\* upstream would answer `resp`. threw: the promise rejects.
WAQI_searchByBounds(cache, t, bounds, limit, resp) ==
    LET key == WAQI_cacheKey(bounds)
        cached == getCachedData(cache, key, t)
        cache1 == CacheAfterGet(cache, key, t)
        base == [key |-> key, limit |-> limit, time |-> t, hit |-> FALSE,
                 entry |-> EntryOf(cache, key),
                 calls |-> 1, threw |-> FALSE, failed |-> TRUE,
                 ret |-> <<>>, cache |-> cache1, supplied |-> <<>>]
    IN IF cached # <<>>
       THEN [base EXCEPT !.hit = TRUE, !.calls = 0, !.failed = FALSE,
                         !.ret = cached[1], !.cache = cache]
       ELSE IF resp.outcome = "throw" THEN [base EXCEPT !.threw = TRUE]
       ELSE IF resp.outcome = "http" THEN base
       ELSE IF resp.outcome = "notok" THEN base
       ELSE LET stations == WAQI_collect(resp.results, limit, <<>>)
            IN [base EXCEPT !.failed = FALSE, !.ret = stations,
                            !.supplied = resp.results,
                            !.cache = setCachedData(cache1, key, stations, t)]

WithDistance(station, lat, lng) ==
    [name |-> station.name, lat |-> station.lat, lng |-> station.lng,
     source |-> station.source,
     distance |-> calculateDistance(lat, lng, station.lat, station.lng)]

MapDistance(stations, lat, lng) ==
    [i \in 1..Len(stations) |-> WithDistance(stations[i], lat, lng)]

WithinRadius(stations, radiusKm) ==
    LET within(s) == s.distance <= radiusKm IN SelectSeq(stations, within)

\* The map/filter/slice chain of searchByRadius on what searchByBounds returned.
WAQI_filteredStations(stations, lat, lng, radiusKm, limit) ==
    Slice(WithinRadius(MapDistance(stations, lat, lng), radiusKm), limit)

WAQI_searchByRadius(cache, t, lat, lng, radiusKm, limit, resp) ==
    LET sb == WAQI_searchByBounds(cache, t, getBoundingBox(lat, lng, radiusKm),
                                  limit * 2, resp)
    IN [sb |-> sb,
        stations |-> IF sb.threw THEN <<>>
                     ELSE WAQI_filteredStations(sb.ret, lat, lng, radiusKm, limit)]

\* getSingleStation: null unless the feed answers 2xx with status "ok".
WAQI_getSingleStation(lat, lon, resp) ==
    IF resp.outcome = "ok"
    THEN <<[name |-> "WAQI station", lat |-> lat, lng |-> lon, source |-> "waqi"]>>
    ELSE <<>>

\* The POST handler: what the caller receives (status, data), the searchByBounds
\* calls it made (call) and what it leaves in the cache.
WAQI_POST(cache, t, body, resp) ==
    LET mode == ModeOf(body)
        out == [provider |-> "waqi", body |-> body, time |-> t, mode |-> mode,
                status |-> 400, data |-> <<>>, call |-> <<>>, cache |-> cache,
                radiusKm |-> 0, limit |-> 0, held |-> <<>>, nodata |-> FALSE,
                fetches |-> 0]
    IN IF mode = "invalid" \/ (mode = "bounds" /\ ~Has(body, "bounds")) THEN out
       ELSE IF mode = "radius"
       THEN LET radiusKm == OrDefault(body, "radius", 100)
                stationLimit == OrDefault(body, "limit", 100)
                r == WAQI_searchByRadius(cache, t, body.lat, body.lon, radiusKm,
                                         stationLimit, resp)
            IN [out EXCEPT !.radiusKm = radiusKm, !.limit = stationLimit,
                           !.status = IF r.sb.threw THEN 500 ELSE 200,
                           !.data = r.stations, !.call = <<Strip(r.sb)>>,
                           !.held = r.sb.supplied, !.nodata = NoData(<<r.sb>>),
                           !.fetches = Fetches(<<r.sb>>),
                           !.cache = r.sb.cache]
       ELSE IF mode = "bounds"
       THEN LET stationLimit == OrDefault(body, "limit", 100)
                sb == WAQI_searchByBounds(cache, t, body.bounds, stationLimit, resp)
            IN [out EXCEPT !.limit = stationLimit,
                           !.status = IF sb.threw THEN 500 ELSE 200,
                           !.data = sb.ret, !.call = <<Strip(sb)>>,
                           !.nodata = NoData(<<sb>>), !.fetches = Fetches(<<sb>>),
                           !.cache = sb.cache]
       ELSE LET station == WAQI_getSingleStation(body.lat, body.lon, resp)
            IN [out EXCEPT !.status = IF resp.outcome = "throw" THEN 500
                                      ELSE IF station = <<>> THEN 502 ELSE 200,
                           !.data = station, !.nodata = resp.outcome # "ok",
                           !.fetches = 1]

----------------------------------------------------------------------------
(* OpenAQ route, src/src/app/api/openaq/route.ts *)

OpenAQ_station(result) ==
    [name |-> result.name, lat |-> result.lat, lng |-> result.lon, source |-> "openaq"]

OpenAQ_cacheKey(bounds, limit, page) ==
    <<"openaq-bounds", bounds.north, bounds.south, bounds.east, bounds.west,
      limit, page, "pm25,no2,co">>

\* hasMore of a page: (meta.page || 1) * (meta.limit || 100) < (meta.found || 0);
\* the upstream's meta echoes the page and limit it was asked for.
OpenAQ_hasMore(page, limit, found) ==
    (IF page = 0 THEN 1 ELSE page) * (IF limit = 0 THEN 100 ELSE limit) < found

\* searchByBounds(bounds, limit, page) at time t against cache `cache`, when the
\* upstream would answer `resp`. Every failure is caught and returns the empty page.
OpenAQ_searchByBounds(cache, t, bounds, limit, page, resp) ==
    LET key == OpenAQ_cacheKey(bounds, limit, page)
        cached == getCachedData(cache, key, t)
        cache1 == CacheAfterGet(cache, key, t)
        base == [key |-> key, limit |-> limit, page |-> page, time |-> t,
                 hit |-> FALSE, entry |-> EntryOf(cache, key), calls |-> 1,
                 threw |-> FALSE, failed |-> TRUE,
                 ret |-> <<>>, total |-> 0, hasMore |-> FALSE,
                 cache |-> cache1, supplied |-> <<>>]
    IN IF cached # <<>>
       THEN [base EXCEPT !.hit = TRUE, !.calls = 0, !.failed = FALSE,
                         !.ret = cached[1].stations, !.total = cached[1].total,
                         !.hasMore = cached[1].hasMore, !.cache = cache]
       ELSE IF resp.outcome # "ok" THEN base
       ELSE LET stations == [i \in 1..Len(resp.results) |-> OpenAQ_station(resp.results[i])]
                response == [stations |-> stations, total |-> resp.found,
                             hasMore |-> OpenAQ_hasMore(page, limit, resp.found)]
            IN [base EXCEPT !.failed = FALSE, !.ret = stations,
                            !.total = response.total, !.hasMore = response.hasMore,
                            !.supplied = resp.results,
                            !.cache = setCachedData(cache1, key, response, t)]

\* A faulty chain, which omits the final slice; C3 does not hold of it.
Faulty_OpenAQ_filteredStations(allStations, lat, lng, radiusKm, limit) ==
    SortByDistance(WithinRadius(MapDistance(allStations, lat, lng), radiusKm))

\* The map/filter/sort/slice chain of searchByRadius on the accumulated pages.
OpenAQ_filteredStations(allStations, lat, lng, radiusKm, limit) ==
    Slice(SortByDistance(WithinRadius(MapDistance(allStations, lat, lng), radiusKm)),
          limit)

\* Page `page` of `limit` records of what the upstream holds.
PageOf(held, page, limit) ==
    IF limit < 1 \/ page < 1 THEN held
    ELSE SubSeq(held, Min((page - 1) * limit, Len(held)) + 1, Min(page * limit, Len(held)))

\* The upstream's answer to a page request: `held` is what it holds for the
\* bounding box, meta.found its size.
OpenAQ_response(outcome, held, page, limit) ==
    IF outcome = "ok"
    THEN [outcome |-> "ok", results |-> PageOf(held, page, limit), found |-> Len(held)]
    ELSE [outcome |-> outcome, results |-> <<>>, found |-> 0]

OutcomeOf(outcomes, page) == IF page \in DOMAIN outcomes THEN outcomes[page] ELSE "ok"

\* A faulty loop, which never tests the page against maxPages; C10 does not
\* hold of it.
RECURSIVE Faulty_OpenAQ_pages(_, _, _, _, _, _, _, _, _, _)
Faulty_OpenAQ_pages(cache, t, bounds, limit, page, maxPages, allStations, calls, held, outcomes) ==
    LET sb == OpenAQ_searchByBounds(cache, t, bounds, limit, page,
                  OpenAQ_response(OutcomeOf(outcomes, page), held, page, limit))
        pushed == allStations \o sb.ret
    IN IF ~sb.hasMore \/ Len(pushed) >= limit * 2
       THEN [allStations |-> pushed, calls |-> Append(calls, Strip(sb)),
             cache |-> sb.cache]
       ELSE Faulty_OpenAQ_pages(sb.cache, t, bounds, limit, page + 1, maxPages, pushed,
                                Append(calls, Strip(sb)), held, outcomes)

\* The loop of searchByRadius from page `page` on: each page is looked up or
\* fetched in turn (outcomes[p] is how the upstream answers page p).
RECURSIVE OpenAQ_pages(_, _, _, _, _, _, _, _, _, _)
OpenAQ_pages(cache, t, bounds, limit, page, maxPages, allStations, calls, held, outcomes) ==
    IF page > maxPages
    THEN [allStations |-> allStations, calls |-> calls, cache |-> cache]
    ELSE LET sb == OpenAQ_searchByBounds(cache, t, bounds, limit, page,
                       OpenAQ_response(OutcomeOf(outcomes, page), held, page, limit))
             pushed == allStations \o sb.ret
         IN IF ~sb.hasMore \/ Len(pushed) >= limit * 2
            THEN [allStations |-> pushed, calls |-> Append(calls, Strip(sb)),
                  cache |-> sb.cache]
            ELSE OpenAQ_pages(sb.cache, t, bounds, limit, page + 1, maxPages, pushed,
                              Append(calls, Strip(sb)), held, outcomes)

OpenAQ_searchByRadius(cache, t, lat, lng, radiusKm, limit, maxPages, held, outcomes) ==
    LET got == OpenAQ_pages(cache, t, getBoundingBox(lat, lng, radiusKm), limit, 1,
                            maxPages, <<>>, <<>>, held, outcomes)
    IN [stations |-> OpenAQ_filteredStations(got.allStations, lat, lng, radiusKm, limit),
        calls |-> got.calls, cache |-> got.cache]

\* getSingleStation: null unless the answer is 2xx and holds a result.
OpenAQ_getSingleStation(lat, lon, resp) ==
    IF resp.outcome = "ok" /\ resp.results # <<>>
    THEN <<[name |-> resp.results[1].name, lat |-> lat, lng |-> lon,
            source |-> "openaq"]>>
    ELSE <<>>

\* The POST handler: what the caller receives (status, data), the searchByBounds
\* calls it made (call) and what it leaves in the cache. `held` is what the
\* upstream holds for the request, outcomes[p] how it answers the p-th request.
OpenAQ_POST(cache, t, body, held, outcomes) ==
    LET mode == ModeOf(body)
        out == [provider |-> "openaq", body |-> body, time |-> t, mode |-> mode,
                status |-> 400, data |-> <<>>, call |-> <<>>, cache |-> cache,
                radiusKm |-> 0, limit |-> 0, held |-> <<>>, nodata |-> FALSE,
                fetches |-> 0, maxPages |-> 0]
    IN IF mode = "invalid" \/ (mode = "bounds" /\ ~Has(body, "bounds")) THEN out
       ELSE IF mode = "radius"
       THEN LET radiusKm == OrDefault(body, "radius", 100)
                stationLimit == OrDefault(body, "limit", 100)
                pages == OrDefault(body, "maxPages", 5)
                r == OpenAQ_searchByRadius(cache, t, body.lat, body.lon, radiusKm,
                                           stationLimit, pages, held, outcomes)
            IN [out EXCEPT !.radiusKm = radiusKm, !.limit = stationLimit,
                           !.maxPages = pages, !.status = 200,
                           !.data = r.stations, !.call = r.calls,
                           !.held = IF \E i \in 1..Len(r.calls) : r.calls[i].calls > 0
                                    THEN held ELSE <<>>,
                           !.nodata = NoData(r.calls), !.fetches = Fetches(r.calls),
                           !.cache = r.cache]
       ELSE IF mode = "bounds"
       THEN LET stationLimit == OrDefault(body, "limit", 100)
                pageNum == OrDefault(body, "page", 1)
                sb == OpenAQ_searchByBounds(cache, t, body.bounds, stationLimit, pageNum,
                          OpenAQ_response(OutcomeOf(outcomes, 1), held, pageNum,
                                          stationLimit))
            IN [out EXCEPT !.limit = stationLimit, !.status = 200, !.data = sb.ret,
                           !.call = <<Strip(sb)>>, !.nodata = NoData(<<sb>>),
                           !.fetches = Fetches(<<sb>>), !.cache = sb.cache]
       ELSE LET station == OpenAQ_getSingleStation(body.lat, body.lon,
                               OpenAQ_response(OutcomeOf(outcomes, 1), held, 1, 3))
            IN [out EXCEPT !.status = IF OutcomeOf(outcomes, 1) = "throw" THEN 500
                                      ELSE IF station = <<>> THEN 502 ELSE 200,
                           !.data = station, !.nodata = (station = <<>>),
                           !.fetches = 1]


----------------------------------------------------------------------------
(* Healthcare finder, src/unnamed/part_007 *)

HC_CACHE_DURATION == 10

\* Haversine distance in metres between points given in 1e-5 degree
\* (R = 6371e3: 1.11195 m per 1e-5 degree), under the same small-angle evaluation.
HC_calculateDistance(lat1, lon1, lat2, lon2) ==
    LET dLat == lat2 - lat1
        dLon == Abs(lon2 - lon1)
        a == dLat * dLat
             + ((dLon * CosMilli(lat1 \div 1000)) \div 1000)
               * ((dLon * CosMilli(lat2 \div 1000)) \div 1000)
    IN (ISqrt(a) * 111195) \div 100000

\* Number.prototype.toFixed(4) and toFixed(3) of a positive coordinate held in
\* 1e-5 degree: the value rounded to 1e-4 and to 1e-3 degree.
toFixed4(x) == (x + 5) \div 10
toFixed3(x) == (x + 50) \div 100

\* `element.lat || element.center?.lat` (0 stands for undefined).
HC_coord(element, f) ==
    IF Has(element, f) /\ element[f] # 0 THEN element[f]
    ELSE IF Has(element, "center") THEN element.center[f] ELSE 0

\* tags.name || tags['name:en'] || tags['name:ms'] || tags.operator || 'Unknown Facility'
HC_name(element) ==
    LET tags == IF Has(element, "tags") THEN element.tags ELSE <<>>
    IN IF Has(tags, "name") THEN tags.name
       ELSE IF Has(tags, "name:en") THEN tags["name:en"]
       ELSE IF Has(tags, "name:ms") THEN tags["name:ms"]
       ELSE IF Has(tags, "operator") THEN tags.operator
       ELSE "Unknown Facility"

getFacilityType(element) ==
    LET tags == IF Has(element, "tags") THEN element.tags ELSE <<>>
        amenity == IF Has(tags, "amenity") THEN tags.amenity ELSE ""
        healthcare == IF Has(tags, "healthcare") THEN tags.healthcare ELSE ""
    IN IF amenity = "hospital" \/ healthcare = "hospital" THEN "hospital"
       ELSE IF amenity = "pharmacy" THEN "pharmacy"
       ELSE IF healthcare = "centre" \/ healthcare = "center" THEN "health_center"
       ELSE "clinic"

\* A faulty key, built from the coordinates as they are, unrounded; C6 does
\* not hold of it.
Faulty_HC_key(element) ==
    <<HC_name(element), HC_coord(element, "lat"), HC_coord(element, "lon")>>

HC_key(element) ==
    <<HC_name(element), toFixed4(HC_coord(element, "lat")), toFixed4(HC_coord(element, "lon"))>>

HC_facility(element, userLat, userLng) ==
    [id |-> <<"osm", element.type, element.id>>,
     name |-> HC_name(element),
     type |-> getFacilityType(element),
     lat |-> HC_coord(element, "lat"),
     lng |-> HC_coord(element, "lon"),
     distance |-> HC_calculateDistance(userLat, userLng,
                                       HC_coord(element, "lat"), HC_coord(element, "lon"))]

\* The loop of parseOverpassResponse: skip elements without coordinates and
\* elements whose key was seen, push the others.
RECURSIVE HC_collect(_, _, _, _, _)
HC_collect(elements, userLat, userLng, seen, facilities) ==
    IF elements = <<>> THEN facilities
    ELSE LET element == Head(elements)
         IN IF HC_coord(element, "lat") = 0 \/ HC_coord(element, "lon") = 0
            THEN HC_collect(Tail(elements), userLat, userLng, seen, facilities)
            ELSE IF HC_key(element) \in seen
            THEN HC_collect(Tail(elements), userLat, userLng, seen, facilities)
            ELSE HC_collect(Tail(elements), userLat, userLng,
                            seen \cup {HC_key(element)},
                            Append(facilities, HC_facility(element, userLat, userLng)))

parseOverpassResponse(elements, userLat, userLng) ==
    SortByDistance(HC_collect(elements, userLat, userLng, {}, <<>>))

HC_cacheKey(lat, lng, radiusMeters) == <<toFixed3(lat), toFixed3(lng), radiusMeters>>

\* `types && types.length > 0 ? facilities.filter(f => types.includes(f.type)) : facilities`
HC_filterTypes(facilities, options) ==
    IF Has(options, "types") /\ options.types # {}
    THEN LET wanted(f) == f.type \in options.types IN SelectSeq(facilities, wanted)
    ELSE facilities

\* searchNearbyHealthcare(lat, lng, options) at time t against cache `cache`, when
\* the upstream would answer `resp`. threw: the promise rejects.
searchNearbyHealthcare(cache, t, lat, lng, options, resp) ==
    LET radiusMeters == IF Has(options, "radiusMeters") THEN options.radiusMeters ELSE 5000
        limit == IF Has(options, "limit") THEN options.limit ELSE 20
        key == HC_cacheKey(lat, lng, radiusMeters)
        base == [key |-> key, limit |-> limit, time |-> t, hit |-> FALSE,
                 entry |-> EntryOf(cache, key),
                 calls |-> 1, threw |-> TRUE, failed |-> TRUE, ret |-> <<>>,
                 parsed |-> <<>>, totalFound |-> 0, cache |-> cache,
                 supplied |-> <<>>, radiusMeters |-> radiusMeters]
    IN IF key \in DOMAIN cache /\ t - cache[key].timestamp < HC_CACHE_DURATION
       THEN LET facilities == HC_filterTypes(cache[key].result.facilities, options)
            IN [base EXCEPT !.hit = TRUE, !.calls = 0, !.threw = FALSE,
                            !.failed = FALSE, !.ret = Slice(facilities, limit),
                            !.parsed = cache[key].result.facilities,
                            !.totalFound = cache[key].result.totalFound]
       ELSE IF resp.outcome # "ok" THEN base
       ELSE LET facilities == parseOverpassResponse(resp.results, lat, lng)
                result == [facilities |-> facilities, searchRadius |-> radiusMeters,
                           totalFound |-> Len(facilities), timestamp |-> t]
            IN [base EXCEPT !.threw = FALSE, !.failed = FALSE,
                            !.ret = Slice(HC_filterTypes(facilities, options), limit),
                            !.parsed = facilities,
                            !.totalFound = result.totalFound,
                            !.supplied = resp.results,
                            !.cache = [k \in DOMAIN cache \cup {key} |->
                                          IF k = key
                                          THEN [result |-> result, timestamp |-> t]
                                          ELSE cache[k]]]

----------------------------------------------------------------------------
(* Passport ledger: the mutations of src/unnamed/part_011 on the tables of   *)
(* src/unnamed/part_006. The handlers delegate to convex/air/passport.ts,    *)
(* which is not among the sources; its logic follows sections 4.5 and 4.6 of *)
(* the design specification. Scores are held in tenths of a point.           *)

Clamp(x, lo, hi) == IF x < lo THEN lo ELSE IF x > hi THEN hi ELSE x

\* Penalty of one pollutant reading, in tenths: pm25 / 2, no2 / 2.5, co * 8;
\* a reading that was not supplied contributes nothing.
Penalty(args, pollutant, tenthsPerUnit) ==
    IF Has(args, pollutant) THEN args[pollutant] * tenthsPerUnit ELSE 0

\* A faulty score, the bare formula without the clamp; C18 does not hold of it.
Faulty_exposureScore(args) ==
    1000 - (Penalty(args, "pm25", 5) + Penalty(args, "no2", 4)
            + Penalty(args, "co", 80))

\* score = clamp(100 - (pm25 / 2 + no2 / 2.5 + co * 8), 0, 100), in tenths.
exposureScore(args) ==
    Clamp(1000 - (Penalty(args, "pm25", 5) + Penalty(args, "no2", 4)
                  + Penalty(args, "co", 80)),
          0, 1000)

\* lastActiveDate of a profile without activity.
Never == -1

\* The profile created lazily by logExposure or by ensureProfile.
NewProfile(userKey) ==
    [userKey |-> userKey, points |-> 0, streak |-> 0, bestStreak |-> 0,
     lastActiveDate |-> Never]

\* A faulty transition, which extends the streak over a gap of any length;
\* C12 does not hold of it.
Faulty_StreakAfter(profile, D) ==
    IF profile.lastActiveDate = D THEN profile.streak ELSE profile.streak + 1

\* The streak after an event on date D.
StreakAfter(profile, D) ==
    IF profile.lastActiveDate = D - 1 THEN profile.streak + 1
    ELSE IF profile.lastActiveDate = D THEN profile.streak
    ELSE 1

\* A faulty best streak, which follows the current streak down when it is
\* reset; C14 does not hold of it.
Faulty_BestAfter(bestStreak, streak) == streak

\* bestStreak = max(bestStreak, streak).
BestAfter(bestStreak, streak) == Max(bestStreak, streak)

\* A faulty award, whose bonus shrinks as the score grows; C15 does not hold
\* of it.
Faulty_PointsAward(score) == 10 - score \div 50

\* The award of one event: a fixed base amount plus a bonus scaled to the
\* score. The design fixes neither amount; 10 points and one point for every
\* ten points of score stand for them here.
PointsAward(score) == 10 + score \div 100

\* A faulty update, which treats a later event of the same day as a repeat
\* and awards nothing for it; C13 does not hold of it.
Faulty_ApplyExposure(profile, D, score) ==
    IF profile.lastActiveDate = D
    THEN profile
    ELSE LET streak == StreakAfter(profile, D)
         IN [profile EXCEPT !.points = profile.points + PointsAward(score),
                            !.streak = streak,
                            !.bestStreak = BestAfter(profile.bestStreak, streak),
                            !.lastActiveDate = D]

\* The profile after an event of score `score` on date D.
ApplyExposure(profile, D, score) ==
    LET streak == StreakAfter(profile, D)
    IN [profile EXCEPT !.points = profile.points + PointsAward(score),
                       !.streak = streak,
                       !.bestStreak = BestAfter(profile.bestStreak, streak),
                       !.lastActiveDate = D]

\* The exposure document of an event.
ExposureDoc(userKey, D, args) ==
    [profileId |-> userKey, timestamp |-> D, args |-> args,
     score |-> exposureScore(args)]

\* What a mutation read: <<>> when the user has no profile, <<profile>> otherwise.
ReadProfile(table, userKey) ==
    IF userKey \in DOMAIN table THEN <<table[userKey]>> ELSE <<>>

\* A faulty store, which never sees a conflict and lets a mutation commit on
\* what it read earlier; C17 does not hold of it.
Faulty_Conflicts(t, table) == FALSE

\* A mutation commits only if what it read is still what the table holds.
Conflicts(t, table) == ReadProfile(table, t.userKey) # t.read

\* Faulty writes, of which only the profile patch takes effect and the
\* exposure is lost; C16 does not hold of them.
Faulty_LogWrites(t, table, docs) ==
    LET base == IF t.read = <<>> THEN NewProfile(t.userKey) ELSE t.read[1]
        doc == ExposureDoc(t.userKey, t.day, t.args)
        after == ApplyExposure(base, t.day, doc.score)
    IN [profiles |-> [k \in DOMAIN table \cup {t.userKey} |->
                         IF k = t.userKey THEN after ELSE table[k]],
        exposures |-> docs]

\* The writes of logExposure, applied together at commit: the patched (or
\* inserted) profile and the appended exposure.
LogWrites(t, table, docs) ==
    LET base == IF t.read = <<>> THEN NewProfile(t.userKey) ELSE t.read[1]
        doc == ExposureDoc(t.userKey, t.day, t.args)
        after == ApplyExposure(base, t.day, doc.score)
    IN [profiles |-> [k \in DOMAIN table \cup {t.userKey} |->
                         IF k = t.userKey THEN after ELSE table[k]],
        exposures |-> Append(docs, doc)]

\* A client without a running mutation.
Idle == [status |-> "idle"]

----------------------------------------------------------------------------
(* Map utilities, src/src/lib/radiusUtils.ts. A zoom is held in tenths of a *)
(* level and a radius in hundredths of a kilometre.                         *)

\* ZOOM_RADIUS_MAP, in hundredths of a kilometre.
ZOOM_RADIUS_MAP ==
    [z \in 1..18 |->
        <<250000, 150000, 80000, 50000, 30000, 20000, 15000, 10000, 7000,
          5000, 3000, 1500, 1000, 600, 300, 150, 80, 40>>[z]]

\* Math.round, Math.floor and Math.ceil of a number held in tenths.
RoundTenths(x) == (x + 5) \div 10
FloorTenths(x) == x \div 10
CeilTenths(x) == -((-x) \div 10)

\* ZOOM_RADIUS_MAP[level] || fallback: a level without an entry is undefined.
RadiusOr(level, fallback) ==
    IF level \in DOMAIN ZOOM_RADIUS_MAP /\ ZOOM_RADIUS_MAP[level] # 0
    THEN ZOOM_RADIUS_MAP[level] ELSE fallback

\* getRadiusFromZoom(zoom).
getRadiusFromZoom(zoom) ==
    LET clampedZoom == Max(1, Min(18, RoundTenths(zoom)))
        lowerZoom == FloorTenths(zoom)
        upperZoom == CeilTenths(zoom)
        lowerRadius == RadiusOr(lowerZoom, ZOOM_RADIUS_MAP[1])
        upperRadius == RadiusOr(upperZoom, ZOOM_RADIUS_MAP[18])
        fraction == zoom - lowerZoom * 10
    IN IF RadiusOr(clampedZoom, 0) # 0
       THEN ZOOM_RADIUS_MAP[clampedZoom]
       ELSE lowerRadius + ((upperRadius - lowerRadius) * fraction) \div 10

----------------------------------------------------------------------------
(* LocationService, src/src/lib/locationService.ts *)

\* LocationService.calculateDistance(loc1, loc2) in km, the points given in
\* hundredths of a degree: the same Haversine formula as the routes'.
LS_calculateDistance(loc1, loc2) ==
    LET dLat == loc2.lat - loc1.lat
        dLng == Abs(loc2.lng - loc1.lng)
        a == dLat * dLat
             + ((dLng * CosMilli(loc1.lat)) \div 1000)
               * ((dLng * CosMilli(loc2.lat)) \div 1000)
    IN (ISqrt(a) * 1112) \div 1000

\* maxHistoryLength: the service keeps the last 100 locations.
maxHistoryLength == 100

\* A faulty history, which keeps the oldest maxHistoryLength locations; C26
\* does not hold of it.
Faulty_addToHistory(history, location) ==
    LET pushed == Append(history, location)
    IN IF Len(pushed) > maxHistoryLength
       THEN SubSeq(pushed, 1, maxHistoryLength)
       ELSE pushed

\* addToHistory(location): push, then keep the last maxHistoryLength entries.
addToHistory(history, location) ==
    LET pushed == Append(history, location)
    IN IF Len(pushed) > maxHistoryLength
       THEN SubSeq(pushed, Len(pushed) - maxHistoryLength + 1, Len(pushed))
       ELSE pushed

\* getLocationHistory(): [...this.locationHistory], an array of the caller's own.
getLocationHistory(history) == [array |-> history, own |-> TRUE]

\* The service as constructed: no watch (watchId 0 is null), not tracking, an
\* empty history. `watches` are the watches registered with the browser,
\* `queries` the permission queries not yet resolved, `stopped` whether
\* stopLocationTracking was called and startLocationTracking not since,
\* `fixes` the positions delivered so far and `clearedAt` their number when the
\* history was last emptied; `returned` is what the last call of
\* getLocationHistory returned.
NoTracker ==
    [watchId |-> 0, isTracking |-> FALSE, locationHistory |-> <<>>,
     watches |-> {}, queries |-> 0, starts |-> 0, stopped |-> FALSE,
     fixes |-> 0, clearedAt |-> 0,
     returned |-> [array |-> <<>>, own |-> TRUE, held |-> FALSE]]

\* stopLocationTracking(): clears the stored watch, if any.
stopLocationTracking(t) ==
    [t EXCEPT !.watches = IF t.watchId # 0 THEN t.watches \ {t.watchId} ELSE t.watches,
              !.watchId = 0,
              !.isTracking = FALSE]

----------------------------------------------------------------------------
(* Container entrypoint, src/scripts/start.sh *)

MAX_FAILURES == 3

\* The HTTP codes of a failed health check; 000 stands for no answer.
FailedCodes == {"000", "503", "502"}

\* Before convex_watchdog runs. `started` and `target` tell whether it runs and
\* whether DEPLOY_TARGET is set; CONSECUTIVE_FAILURES is the script's counter;
\* `checks` counts the rounds of its loop, `streak` the failed health checks
\* since the last healthy one, and `redeploy` is what the last round did about
\* deploy_convex: "none", "ok" or "failed".
NoWatchdog ==
    [started |-> FALSE, target |-> FALSE, CONSECUTIVE_FAILURES |-> 0,
     checks |-> 0, streak |-> 0, code |-> "none", redeploy |-> "none"]

\* A faulty round, which resets the counter after a failed redeploy as well;
\* C30 does not hold of it.
Faulty_WatchdogRound(w, code, deployed) ==
    IF ~w.target
    THEN [w EXCEPT !.checks = @ + 1, !.code = "none", !.redeploy = "none"]
    ELSE IF code \in FailedCodes
    THEN LET failures == w.CONSECUTIVE_FAILURES + 1
         IN IF failures >= MAX_FAILURES
            THEN [w EXCEPT !.checks = @ + 1, !.code = code, !.streak = @ + 1,
                           !.CONSECUTIVE_FAILURES = 0,
                           !.redeploy = IF deployed THEN "ok" ELSE "failed"]
            ELSE [w EXCEPT !.checks = @ + 1, !.code = code, !.streak = @ + 1,
                           !.CONSECUTIVE_FAILURES = failures, !.redeploy = "none"]
    ELSE [w EXCEPT !.checks = @ + 1, !.code = code, !.streak = 0,
                   !.CONSECUTIVE_FAILURES = 0, !.redeploy = "none"]

\* One round of the loop of convex_watchdog after its sleep: the health check
\* answers `code`, and deploy_convex, where it runs, succeeds or not (deployed).
WatchdogRound(w, code, deployed) ==
    IF ~w.target
    THEN [w EXCEPT !.checks = @ + 1, !.code = "none", !.redeploy = "none"]
    ELSE IF code \in FailedCodes
    THEN LET failures == w.CONSECUTIVE_FAILURES + 1
         IN IF failures >= MAX_FAILURES
            THEN [w EXCEPT !.checks = @ + 1, !.code = code, !.streak = @ + 1,
                           !.CONSECUTIVE_FAILURES = IF deployed THEN 0 ELSE failures,
                           !.redeploy = IF deployed THEN "ok" ELSE "failed"]
            ELSE [w EXCEPT !.checks = @ + 1, !.code = code, !.streak = @ + 1,
                           !.CONSECUTIVE_FAILURES = failures, !.redeploy = "none"]
    ELSE [w EXCEPT !.checks = @ + 1, !.code = code, !.streak = 0,
                   !.CONSECUTIVE_FAILURES = 0, !.redeploy = "none"]

----------------------------------------------------------------------------
(* The environment: requests of the callers and answers of the upstreams *)

\* Stations an air-quality upstream may report (hundredths of a degree); from
\* the point Pt they are about 4 and 49 km away; Z has a falsy latitude.
StationN == [name |-> "N", lat |-> 318, lon |-> 10169]
StationM == [name |-> "M", lat |-> 314, lon |-> 10214]
StationZ == [name |-> "Z", lat |-> 0, lon |-> 10169]

AirRaw == {StationN, StationM, StationZ}

\* What the upstream holds for a query: any records in any order.
AirData == SeqsUpTo(AirRaw, MaxResults)

\* The point the air-quality queries are about.
Pt == [lat |-> 314, lon |-> 10169]

\* A longer answer of the WAQI feed: a station within 10 km of Pt after two
\* stations beyond it.
AirLong == { <<StationM, StationM, StationN>> }

AirBox == getBoundingBox(Pt.lat, Pt.lon, 100)

\* Bodies of POST requests: radius mode with radius 10, 0 (falsy) and -10,
\* bounds mode with and without bounds.
RadiusBodies ==
    { Pt @@ [mode |-> "radius", radius |-> 10, limit |-> 1],
      Pt @@ [radius |-> 10],
      Pt @@ [mode |-> "radius", radius |-> 0],
      Pt @@ [mode |-> "radius", radius |-> -10] }

BoundsBodies ==
    { Pt @@ [bounds |-> AirBox, limit |-> 1],
      Pt @@ [mode |-> "bounds", bounds |-> AirBox],
      Pt @@ [mode |-> "bounds"] }

\* The single-station default at Pt and at latitude 95 degrees, and a body
\* without lat.
OtherBodies == { Pt, [lat |-> 9500, lon |-> Pt.lon], [lon |-> Pt.lon] }

WAQI_Bodies == RadiusBodies \cup BoundsBodies \cup OtherBodies

OpenAQ_Bodies ==
    RadiusBodies \cup BoundsBodies \cup OtherBodies
    \cup { Pt @@ [mode |-> "radius", radius |-> 10, limit |-> 1, maxPages |-> 1],
           Pt @@ [bounds |-> AirBox, limit |-> 1, page |-> 2] }

WAQI_ResponsesOf(Data) ==
    { [outcome |-> "ok", results |-> d] : d \in Data }
    \cup { [outcome |-> f, results |-> <<>>] : f \in Failures }

\* How the upstream answers the successive page requests of one query: each
\* with a 2xx or a non-2xx status, or fetch rejecting throughout.
OpenAQ_Outcomes ==
    [1..MaxResults -> {"ok", "http"}] \cup {[p \in 1..MaxResults |-> "throw"]}

\* Overpass elements (1e-5 degree). E1 and E2 bear the same name and round to
\* the same 4-decimal coordinates, E2 being the nearer; E4 lies beyond 5000 m of
\* the origin of HC_Origins; E5 has no coordinates.
ElementE1 ==
    [type |-> "node", id |-> 1, lat |-> 313950, lon |-> 10168700,
     tags |-> [name |-> "K", amenity |-> "clinic"]]
ElementE2 ==
    [type |-> "way", id |-> 2, center |-> [lat |-> 313948, lon |-> 10168702],
     tags |-> [name |-> "K", amenity |-> "clinic"]]
ElementE3 ==
    [type |-> "node", id |-> 3, lat |-> 316000, lon |-> 10168690,
     tags |-> [operator |-> "H", amenity |-> "hospital"]]
ElementE4 ==
    [type |-> "node", id |-> 4, lat |-> 320000, lon |-> 10168690,
     tags |-> [name |-> "P", amenity |-> "pharmacy"]]
ElementE5 == [type |-> "relation", id |-> 5, tags |-> [name |-> "K"]]

HC_Elements == {ElementE1, ElementE2, ElementE3, ElementE4, ElementE5}

HC_Data == SeqsUpTo(HC_Elements, MaxResults)

HC_ResponsesOf(Data) ==
    { [outcome |-> "ok", results |-> d] : d \in Data }
    \cup { [outcome |-> f, results |-> <<>>] : f \in {"http", "throw"} }

HC_Origins == { <<313900, 10168690>> }

HC_Options ==
    { <<>>, [limit |-> 1], [types |-> {"hospital"}], [radiusMeters |-> 3000] }

\* The users and clients of the passport, and the pollutant readings a client
\* submits: none, each pollutant alone, all three, and one beyond the scale.
Users == {"u1", "u2"}
Clients == {1, 2}
Readings ==
    { <<>>, [pm25 |-> 20], [no2 |-> 25], [co |-> 1],
      [pm25 |-> 30, no2 |-> 25, co |-> 1], [pm25 |-> 150, co |-> 5] }

----------------------------------------------------------------------------
(* The state machine *)

None ==
    [provider |-> "none", body |-> <<>>, time |-> 0, mode |-> "none", status |-> 0,
     data |-> <<>>, call |-> <<>>, radiusKm |-> 0, limit |-> 0, held |-> <<>>,
     nodata |-> FALSE, fetches |-> 0]

\* The state after start-up: empty caches, empty tables, nothing running. The
\* services share no state: a behaviour follows one of them.
Init ==
    /\ now = 0
    /\ openaqCache = <<>>
    /\ waqiCache = <<>>
    /\ searchCache = <<>>
    /\ last = None
    /\ prev = None
    /\ nreq = 0
    /\ pending = {}
    /\ today = 1
    /\ profiles = <<>>
    /\ exposures = <<>>
    /\ txn = [c \in Clients |-> Idle]
    /\ calc = [fn |-> "none"]
    /\ tracker = NoTracker
    /\ watchdog = NoWatchdog
    /\ svc \in {"openaq", "waqi", "healthcare", "passport", "calc", "tracker",
                "watchdog"}

\* Time passes: Date.now() advances by one of Steps minutes.
Tick(Steps) ==
    /\ svc \in {"openaq", "waqi", "healthcare"}
    /\ \E d \in Steps :
         /\ now + d <= MaxTime
         /\ now' = now + d
    /\ UNCHANGED <<openaqCache, waqiCache, searchCache, last, prev, nreq, svc, hostVars>>
    /\ UNCHANGED <<pending, ledgerVars>>

Completed(r) ==
    /\ last' = Strip(r)
    /\ prev' = last
    /\ nreq' = nreq + 1

\* POST /api/waqi with a body of Bodies, the upstream answering from Responses.
WAQI_Request(Bodies, Responses) ==
    /\ svc = "waqi"
    /\ nreq < MaxRequests
    /\ \E body \in Bodies, resp \in Responses :
         LET r == WAQI_POST(waqiCache, now, body, resp)
         IN /\ waqiCache' = r.cache
            /\ Completed(r)
    /\ UNCHANGED <<now, openaqCache, searchCache, svc, hostVars, pending, ledgerVars>>

\* POST /api/openaq with a body of Bodies, the upstream holding one of Data.
OpenAQ_Request(Bodies, Data) ==
    /\ svc = "openaq"
    /\ nreq < MaxRequests
    /\ \E body \in Bodies, held \in Data, outcomes \in OpenAQ_Outcomes :
         LET r == OpenAQ_POST(openaqCache, now, body, held, outcomes)
         IN /\ openaqCache' = r.cache
            /\ Completed(r)
    /\ UNCHANGED <<now, waqiCache, searchCache, svc, hostVars, pending, ledgerVars>>

\* The outcome of a call of searchNearbyHealthcare(lat, lng, options), in the
\* form of the outcomes of the routes.
HC_Call(cache, t, body, resp) ==
    LET r == searchNearbyHealthcare(cache, t, body.lat, body.lon, body.options, resp)
    IN [provider |-> "healthcare", body |-> body,
        time |-> t, mode |-> "radius",
        status |-> IF r.threw THEN 500 ELSE 200,
        data |-> r.ret, call |-> <<Strip(r)>>,
        radiusKm |-> r.radiusMeters, limit |-> r.limit,
        held |-> r.supplied, nodata |-> NoData(<<r>>),
        fetches |-> Fetches(<<r>>),
        cache |-> r.cache]

\* A call of searchNearbyHealthcare(lat, lng, options).
HC_Search(Origins, Options, Responses) ==
    /\ svc = "healthcare"
    /\ nreq < MaxRequests
    /\ \E origin \in Origins, options \in Options, resp \in Responses :
         LET r == HC_Call(searchCache, now,
                          [lat |-> origin[1], lon |-> origin[2], options |-> options],
                          resp)
         IN /\ searchCache' = r.cache
            /\ Completed(r)
    /\ UNCHANGED <<now, openaqCache, waqiCache, svc, hostVars, pending, ledgerVars>>

\* The services under every request mode and every upstream answer.
Next ==
    \/ Tick({5})
    \/ WAQI_Request(WAQI_Bodies, WAQI_ResponsesOf(AirData \cup AirLong))
    \/ OpenAQ_Request(OpenAQ_Bodies, AirData)
    \/ HC_Search(HC_Origins, HC_Options, HC_ResponsesOf(HC_Data))

Spec == Init /\ [][Next]_vars

\* The mutations that are running.
Running == { c \in Clients : txn[c].status = "running" }

\* A day or two pass.
NextDay ==
    /\ svc = "passport"
    /\ \E d \in {1, 2} :
         /\ today + d <= MaxDay
         /\ today' = today + d
    /\ UNCHANGED <<queryVars, svc, hostVars, pending, profiles, exposures, txn>>

\* The ensureProfile mutation: creates the profile of userKey unless it exists.
ensureProfile(Keys) ==
    /\ svc = "passport"
    /\ \E userKey \in Keys :
         profiles' = IF userKey \in DOMAIN profiles THEN profiles
                     ELSE [k \in DOMAIN profiles \cup {userKey} |->
                              IF k = userKey THEN NewProfile(userKey) ELSE profiles[k]]
    /\ UNCHANGED <<queryVars, svc, hostVars, pending, today, exposures, txn>>

\* A client calls logExposure: the mutation starts, reads the profile of the
\* user and computes the event, dated today.
LogBegin(Callers, Keys, Inputs) ==
    /\ svc = "passport"
    /\ Len(exposures) + Cardinality(Running) < MaxEvents
    /\ \E c \in Callers \ Running, userKey \in Keys, args \in Inputs :
         txn' = [txn EXCEPT ![c] = [status |-> "running", userKey |-> userKey,
                                    args |-> args, day |-> today,
                                    read |-> ReadProfile(profiles, userKey),
                                    retried |-> FALSE]]
    /\ UNCHANGED <<queryVars, svc, hostVars, pending, today, profiles, exposures>>

\* The mutation commits: its writes take effect together.
LogCommit ==
    /\ \E c \in Running :
         /\ ~Conflicts(txn[c], profiles)
         /\ LET w == LogWrites(txn[c], profiles, exposures)
            IN /\ profiles' = w.profiles
               /\ exposures' = w.exposures
         /\ txn' = [txn EXCEPT ![c] = [status |-> "committed",
                                       retried |-> txn[c].retried]]
    /\ UNCHANGED <<queryVars, svc, hostVars, pending, today>>

\* The mutation finds the profile changed since it read it and runs again,
\* once, with a fresh read.
LogRetry ==
    /\ \E c \in Running :
         /\ Conflicts(txn[c], profiles)
         /\ ~txn[c].retried
         /\ txn' = [txn EXCEPT ![c] = [txn[c] EXCEPT
                                         !.read = ReadProfile(profiles, txn[c].userKey),
                                         !.day = today, !.retried = TRUE]]
    /\ UNCHANGED <<queryVars, svc, hostVars, pending, today, profiles, exposures>>

\* A second conflict is surfaced to the caller as a transient failure: none
\* of the writes takes effect and the caller may submit the event again.
LogConflict ==
    /\ \E c \in Running :
         /\ Conflicts(txn[c], profiles)
         /\ txn[c].retried
         /\ txn' = [txn EXCEPT ![c] = [status |-> "failed"]]
    /\ UNCHANGED <<queryVars, svc, hostVars, pending, today, profiles, exposures>>

\* The mutation fails before it commits: none of its writes takes effect.
LogCrash ==
    /\ \E c \in Running :
         txn' = [txn EXCEPT ![c] = [status |-> "crashed"]]
    /\ UNCHANGED <<queryVars, svc, hostVars, pending, today, profiles, exposures>>

\* The passport ledger under two concurrent clients and two users.
NextLedger ==
    \/ NextDay
    \/ ensureProfile(Users)
    \/ LogBegin(Clients, Users, {<<>>, [pm25 |-> 150, co |-> 5]})
    \/ LogCommit
    \/ LogRetry
    \/ LogConflict
    \/ LogCrash

SpecLedger == Init /\ [][NextLedger]_vars

\* The passport of one user, whose client logs one exposure after the other.
NextPassport ==
    \/ NextDay
    \/ ensureProfile({"u1"})
    \/ LogBegin({1}, {"u1"}, Readings)
    \/ LogCommit
    \/ LogRetry
    \/ LogCrash

SpecPassport == Init /\ [][NextPassport]_vars

\* The caches around their expiry: repeated queries on few keys, the clock
\* advancing in steps that reach the ages just below and at each TTL.
TTL_AirData == { <<>>, <<StationN>>, <<StationM, StationN>> }

TTL_WAQI_Bodies ==
    { Pt @@ [bounds |-> AirBox, limit |-> 1],
      Pt @@ [mode |-> "bounds", bounds |-> AirBox],
      Pt @@ [mode |-> "radius", radius |-> 10, limit |-> 1] }

TTL_OpenAQ_Bodies ==
    { Pt @@ [bounds |-> AirBox, limit |-> 1],
      Pt @@ [bounds |-> AirBox, limit |-> 1, page |-> 2],
      Pt @@ [mode |-> "radius", radius |-> 10, limit |-> 1] }

TTL_HC_Options == { <<>>, [limit |-> 1], [radiusMeters |-> 3000] }

TTL_HC_Data == { <<>>, <<ElementE3>>, <<ElementE3, ElementE1>> }

NextTTL ==
    \/ Tick({4, 5})
    \/ WAQI_Request(TTL_WAQI_Bodies, WAQI_ResponsesOf(TTL_AirData))
    \/ OpenAQ_Request(TTL_OpenAQ_Bodies, TTL_AirData)
    \/ HC_Search(HC_Origins, TTL_HC_Options, HC_ResponsesOf(TTL_HC_Data))

SpecTTL == Init /\ [][NextTTL]_vars

\* The queries while their upstream request is under way. A handler awaits
\* fetch, which is given no timeout and no abort signal: it resumes when the
\* upstream settles the request, and not before.
StallQueries(p) ==
    IF p = "waqi" THEN TTL_WAQI_Bodies
    ELSE IF p = "openaq" THEN TTL_OpenAQ_Bodies
    ELSE { [lat |-> o[1], lon |-> o[2], options |-> opt] :
             o \in HC_Origins, opt \in TTL_HC_Options }

\* What the upstream of provider p may answer.
StallAnswers(p) ==
    IF p = "waqi" THEN WAQI_ResponsesOf(TTL_AirData)
    ELSE IF p = "openaq" THEN TTL_AirData \X OpenAQ_Outcomes
    ELSE HC_ResponsesOf(TTL_HC_Data)

\* The cache of provider p.
CacheOf(p) ==
    IF p = "waqi" THEN waqiCache
    ELSE IF p = "openaq" THEN openaqCache
    ELSE searchCache

\* The outcome of the handler of provider p for `body` when its lookups see
\* `cache`, the upstream answering `answer`.
HandledOn(p, cache, body, answer) ==
    IF p = "waqi" THEN WAQI_POST(cache, now, body, answer)
    ELSE IF p = "openaq"
    THEN OpenAQ_POST(cache, now, body, answer[1], answer[2])
    ELSE HC_Call(cache, now, body, answer)

\* The outcome of the handler of provider p for `body`, the upstream
\* answering `answer`.
Handled(p, body, answer) == HandledOn(p, CacheOf(p), body, answer)

\* The handler returns r: the caches are as it leaves them.
Returned(r) ==
    /\ Completed(r)
    /\ waqiCache' = IF svc = "waqi" THEN r.cache ELSE waqiCache
    /\ openaqCache' = IF svc = "openaq" THEN r.cache ELSE openaqCache
    /\ searchCache' = IF svc = "healthcare" THEN r.cache ELSE searchCache

\* A query that needs no upstream request (rejected, or served from the
\* cache) is answered at once.
Served ==
    /\ svc \in {"waqi", "openaq", "healthcare"}
    /\ nreq + Cardinality(pending) < MaxRequests
    /\ \E body \in StallQueries(svc), answer \in StallAnswers(svc) :
         LET r == Handled(svc, body, answer)
         IN r.fetches = 0 /\ Returned(r)
    /\ UNCHANGED <<now, svc, hostVars, pending, ledgerVars>>

\* A query that passed validation and missed the cache sends its request
\* upstream and awaits the answer.
Fetching ==
    /\ svc \in {"waqi", "openaq", "healthcare"}
    /\ pending = {}
    /\ nreq < MaxRequests
    /\ \E body \in StallQueries(svc), answer \in StallAnswers(svc) :
         /\ Handled(svc, body, answer).fetches >= 1
         /\ pending' = {[body |-> body, since |-> now]}
    /\ UNCHANGED <<queryVars, svc, hostVars, ledgerVars>>

\* The upstream settles the request (with data, an error status or a
\* network error) and the handler runs to its end.
Settled ==
    /\ \E q \in pending, answer \in StallAnswers(svc) :
         LET r == Handled(svc, q.body, answer)
         IN r.fetches >= 1 /\ Returned(r)
    /\ pending' = {}
    /\ UNCHANGED <<now, svc, hostVars, ledgerVars>>

NextStall ==
    \/ Tick({5})
    \/ Served
    \/ Fetching
    \/ Settled

\* Time passes however the upstream behaves; nothing obliges the upstream to
\* settle a request.
SpecStall == Init /\ [][NextStall]_vars /\ WF_vars(Tick({5}))

\* Queries in flight side by side. Each handler looked its key up when it was
\* called (it saw the cache `seen`), found nothing and sent its own request
\* upstream; when that request settles the handler stores its result in the
\* cache as it then is.
MergeWrites(live, seen, after) ==
    LET written == { k \in DOMAIN after :
                       k \notin DOMAIN seen \/ after[k] # seen[k] }
        deleted == { k \in DOMAIN seen \ DOMAIN after :
                       k \in DOMAIN live /\ live[k] = seen[k] }
    IN [k \in (DOMAIN live \ deleted) \cup written |->
          IF k \in written THEN after[k] ELSE live[k]]

\* A query that passed validation and missed the cache sends its request
\* upstream, whatever other requests are under way.
FlightAsk ==
    /\ svc \in {"waqi", "openaq", "healthcare"}
    /\ nreq + Cardinality(pending) < MaxRequests
    /\ \E body \in StallQueries(svc), answer \in StallAnswers(svc) :
         /\ Handled(svc, body, answer).fetches >= 1
         /\ pending' = pending \cup
                {[id |-> nreq + Cardinality(pending) + 1, body |-> body,
                  since |-> now, seen |-> CacheOf(svc)]}
    /\ UNCHANGED <<queryVars, svc, hostVars, ledgerVars>>

\* The upstream settles one of the requests and its handler runs to its end.
FlightSettled ==
    /\ \E q \in pending, answer \in StallAnswers(svc) :
       \E r \in {HandledOn(svc, q.seen, q.body, answer)} :
       \E merged \in {MergeWrites(CacheOf(svc), q.seen, r.cache)} :
            /\ r.fetches >= 1
            /\ Completed(r)
            /\ waqiCache' = IF svc = "waqi" THEN merged ELSE waqiCache
            /\ openaqCache' = IF svc = "openaq" THEN merged ELSE openaqCache
            /\ searchCache' = IF svc = "healthcare" THEN merged ELSE searchCache
            /\ pending' = pending \ {q}
    /\ UNCHANGED <<now, svc, hostVars, ledgerVars>>

NextFlight ==
    \/ Tick({5})
    \/ Served
    \/ FlightAsk
    \/ FlightSettled

SpecFlight == Init /\ [][NextFlight]_vars

\* The zoom levels a map reports, in tenths: from below 1 to above 18.
Zooms == -10..200

\* A caller asks for the radius of a zoom level.
RadiusFromZoom ==
    /\ svc = "calc"
    /\ \E zoom \in Zooms :
         calc' = [fn |-> "getRadiusFromZoom", zoom |-> zoom,
                  radius |-> getRadiusFromZoom(zoom)]
    /\ UNCHANGED <<queryVars, svc, pending, ledgerVars, tracker, watchdog>>

\* Points a distance is asked for, in hundredths of a degree, and around the
\* origin of the healthcare searches in 1e-5 degree.
GeoPoints ==
    { [lat |-> la, lng |-> lo] : la \in {-500, 0, 314, 900},
                                 lo \in {10069, 10169, 10214} }
HC_Points ==
    { [lat |-> la, lng |-> lo] : la \in {313900, 314400, 320000},
                                 lo \in {10168690, 10169000, 10171000} }

\* The distance between a and b by one of the three implementations.
DistanceBy(impl, a, b) ==
    IF impl = "routes" THEN calculateDistance(a.lat, a.lng, b.lat, b.lng)
    ELSE IF impl = "healthcare" THEN HC_calculateDistance(a.lat, a.lng, b.lat, b.lng)
    ELSE LS_calculateDistance(a, b)

\* A caller asks for the distance between two points, in both directions.
Distance ==
    /\ svc = "calc"
    /\ \E impl \in {"routes", "healthcare", "location"} :
       \E a, b \in (IF impl = "healthcare" THEN HC_Points ELSE GeoPoints) :
         calc' = [fn |-> "calculateDistance", impl |-> impl, a |-> a, b |-> b,
                  ab |-> DistanceBy(impl, a, b), ba |-> DistanceBy(impl, b, a),
                  aa |-> DistanceBy(impl, a, a)]
    /\ UNCHANGED <<queryVars, svc, pending, ledgerVars, tracker, watchdog>>

NextCalc ==
    \/ RadiusFromZoom
    \/ Distance

SpecCalc == Init /\ [][NextCalc]_vars

\* The radius queries that leave out their radius, limit or page cap, next to
\* the same queries with all three given.
DefaultBodies ==
    { Pt @@ [mode |-> "radius"],
      Pt @@ [mode |-> "radius", limit |-> 1],
      Pt @@ [mode |-> "radius", radius |-> 10],
      Pt @@ [radius |-> 10, maxPages |-> 1],
      Pt @@ [mode |-> "radius", radius |-> 100, limit |-> 100, maxPages |-> 5] }

NextDefaults ==
    \/ Tick({5})
    \/ WAQI_Request(DefaultBodies, WAQI_ResponsesOf(TTL_AirData))
    \/ OpenAQ_Request(DefaultBodies, TTL_AirData)

SpecDefaults == Init /\ [][NextDefaults]_vars

\* What a call that returns no array leaves of the last returned one.
NothingReturned == NoTracker.returned

\* startLocationTracking(options, callbacks): where geolocation is supported,
\* stops the tracking there is and asks for the permission; the answer
\* arrives later.
startLocationTracking(Cap) ==
    /\ svc = "tracker"
    /\ tracker.starts < Cap
    /\ \E isSupported \in BOOLEAN :
         tracker' = IF ~isSupported THEN tracker
                    ELSE [stopLocationTracking(tracker) EXCEPT
                            !.queries = @ + 1, !.starts = @ + 1,
                            !.stopped = FALSE, !.returned = NothingReturned]
    /\ UNCHANGED <<queryVars, svc, pending, ledgerVars, calc, watchdog>>

\* The permission query of an earlier start resolves: unless the permission is
\* denied, the service marks itself tracking and stores the id of a new watch.
PermissionResolved ==
    /\ svc = "tracker"
    /\ tracker.queries > 0
    /\ \E state \in {"granted", "prompt", "denied"} :
         tracker' = IF state = "denied"
                    THEN [tracker EXCEPT !.queries = @ - 1]
                    ELSE LET id == tracker.starts - tracker.queries + 1
                         IN [tracker EXCEPT !.queries = @ - 1,
                                            !.isTracking = TRUE,
                                            !.watchId = id,
                                            !.watches = @ \cup {id}]
    /\ UNCHANGED <<queryVars, svc, pending, ledgerVars, calc, watchdog>>

\* A call of stopLocationTracking() by the application.
StopTracking ==
    /\ svc = "tracker"
    /\ tracker.starts > 0
    /\ tracker' = [stopLocationTracking(tracker) EXCEPT
                     !.stopped = TRUE, !.returned = NothingReturned]
    /\ UNCHANGED <<queryVars, svc, pending, ledgerVars, calc, watchdog>>

\* A registered watch delivers a position: the success callback stamps it and
\* adds it to the history.
PositionUpdate(Cap) ==
    /\ svc = "tracker"
    /\ tracker.watches # {}
    /\ tracker.fixes < Cap
    /\ LET location == [lat |-> Pt.lat, lng |-> Pt.lon, timestamp |-> tracker.fixes + 1]
       IN tracker' = [tracker EXCEPT
                        !.locationHistory = addToHistory(@, location),
                        !.fixes = @ + 1,
                        !.returned = NothingReturned]
    /\ UNCHANGED <<queryVars, svc, pending, ledgerVars, calc, watchdog>>

\* A registered watch reports an error: on PERMISSION_DENIED the error callback
\* stops the tracking.
PositionError ==
    /\ svc = "tracker"
    /\ tracker.watches # {}
    /\ \E code \in {"PERMISSION_DENIED", "POSITION_UNAVAILABLE", "TIMEOUT"} :
         tracker' = IF code = "PERMISSION_DENIED"
                    THEN [stopLocationTracking(tracker) EXCEPT !.returned = NothingReturned]
                    ELSE [tracker EXCEPT !.returned = NothingReturned]
    /\ UNCHANGED <<queryVars, svc, pending, ledgerVars, calc, watchdog>>

\* A call of clearLocationHistory().
ClearHistory ==
    /\ svc = "tracker"
    /\ tracker.locationHistory # <<>>
    /\ tracker' = [tracker EXCEPT !.locationHistory = <<>>,
                                  !.clearedAt = tracker.fixes,
                                  !.returned = NothingReturned]
    /\ UNCHANGED <<queryVars, svc, pending, ledgerVars, calc, watchdog>>

\* A call of getLocationHistory(): the caller holds the array it returns.
GetHistory ==
    /\ svc = "tracker"
    /\ ~tracker.returned.held
    /\ tracker' = [tracker EXCEPT
                     !.returned = getLocationHistory(tracker.locationHistory)
                                  @@ [held |-> TRUE]]
    /\ UNCHANGED <<queryVars, svc, pending, ledgerVars, calc, watchdog>>

\* The caller empties the array it was returned (array.length = 0); an array
\* that is not its own is the history itself.
CallerMutates ==
    /\ svc = "tracker"
    /\ tracker.returned.held
    /\ tracker.returned.array # <<>>
    /\ tracker' = [tracker EXCEPT
                     !.returned.array = <<>>,
                     !.locationHistory = IF tracker.returned.own THEN @ ELSE <<>>]
    /\ UNCHANGED <<queryVars, svc, pending, ledgerVars, calc, watchdog>>

\* The tracking under every interleaving of starts, stops and answers to the
\* permission queries.
NextTracker ==
    \/ startLocationTracking(MaxStarts)
    \/ PermissionResolved
    \/ StopTracking
    \/ PositionUpdate(MaxFixes)
    \/ PositionError

SpecTracker == Init /\ [][NextTracker]_vars

\* The history of one tracking, over more positions than it keeps.
NextHistory ==
    \/ startLocationTracking(1)
    \/ PermissionResolved
    \/ PositionUpdate(MaxUpdates)
    \/ ClearHistory
    \/ GetHistory
    \/ CallerMutates

SpecHistory == Init /\ [][NextHistory]_vars

\* Two origins some 45 m apart, whose coordinates agree to three decimals.
HC_NearOrigins == { <<313900, 10168690>>, <<313940, 10168690>> }

\* The healthcare search from origins that share a cache key.
NextOrigins ==
    \/ Tick({5})
    \/ HC_Search(HC_NearOrigins, TTL_HC_Options, HC_ResponsesOf(TTL_HC_Data))

SpecOrigins == Init /\ [][NextOrigins]_vars

\* The entrypoint starts convex_watchdog in the background, DEPLOY_TARGET
\* being set or empty.
WatchdogStarts ==
    /\ svc = "watchdog"
    /\ ~watchdog.started
    /\ \E target \in BOOLEAN :
         watchdog' = [watchdog EXCEPT !.started = TRUE, !.target = target]
    /\ UNCHANGED <<queryVars, svc, pending, ledgerVars, calc, tracker>>

\* The watchdog wakes up and runs one round of its loop.
HealthCheck ==
    /\ svc = "watchdog"
    /\ watchdog.started
    /\ watchdog.checks < MaxChecks
    /\ \E code \in FailedCodes \cup {"200", "404", "500"}, deployed \in BOOLEAN :
         watchdog' = WatchdogRound(watchdog, code, deployed)
    /\ UNCHANGED <<queryVars, svc, pending, ledgerVars, calc, tracker>>

NextWatchdog ==
    \/ WatchdogStarts
    \/ HealthCheck

SpecWatchdog == Init /\ [][NextWatchdog]_vars

----------------------------------------------------------------------------
(* Properties of the radius queries *)

\* A radius query that was answered: POST in radius mode with status 200, or a
\* call of searchNearbyHealthcare that resolved.
RadiusAnswered(r) == r.mode = "radius" /\ r.status = 200

\* The radius the caller asked for (km for the routes, metres for healthcare),
\* 100 km and 5000 m being what a caller who names none asks for.
RadiusAsked(r) ==
    IF r.provider = "healthcare"
    THEN (IF Has(r.body.options, "radiusMeters") THEN r.body.options.radiusMeters ELSE 5000)
    ELSE (IF Has(r.body, "radius") THEN r.body.radius ELSE 100)

\* Distance of a returned record from the origin of query r, in r's unit.
FromOrigin(r, rec) ==
    IF r.provider = "healthcare"
    THEN HC_calculateDistance(r.body.lat, r.body.lon, rec.lat, rec.lng)
    ELSE calculateDistance(r.body.lat, r.body.lon, rec.lat, rec.lng)

\* C1: for every answered radius query with radius r > 0, of the OpenAQ route,
\* the WAQI route and searchNearbyHealthcare, every returned record lies at a
\* distance <= r from the query origin, whatever the upstream returned.
C1_WithinRadius ==
    (RadiusAnswered(last) /\ RadiusAsked(last) > 0)
        => \A i \in 1..Len(last.data) :
              FromOrigin(last, last.data[i]) <= RadiusAsked(last)

\* C2: the records returned by an answered radius query (OpenAQ, WAQI,
\* healthcare) are in ascending order of distance from the query origin,
\* whatever order the upstream delivered them in.
C2_SortedByDistance ==
    RadiusAnswered(last)
        => \A i \in 1..(Len(last.data) - 1) :
              FromOrigin(last, last.data[i]) <= FromOrigin(last, last.data[i + 1])

\* The searchByBounds calls of query r all went upstream and none failed.
AllSupplied(r) ==
    /\ r.call # <<>>
    /\ \A i \in 1..Len(r.call) : r.call[i].calls = 1 /\ ~r.call[i].failed

\* How many of the upstream records `recs` (fields lat, lon) lie within the
\* radius of query r.
WithinCount(r, recs) ==
    Cardinality({ i \in 1..Len(recs) :
                    calculateDistance(r.body.lat, r.body.lon, recs[i].lat, recs[i].lon)
                        <= r.radiusKm })

\* The stations query r accumulated from its searchByBounds calls.
RECURSIVE Accumulated(_)
Accumulated(calls) ==
    IF calls = <<>> THEN <<>> ELSE Head(calls).ret \o Accumulated(Tail(calls))

AccumulatedWithin(r) ==
    LET acc == Accumulated(r.call)
    IN Cardinality({ i \in 1..Len(acc) : FromOrigin(r, acc[i]) <= r.radiusKm })

AirRadiusAnswered(r) == r.provider \in {"openaq", "waqi"} /\ RadiusAnswered(r)

\* C3 as stated: a radius query of the OpenAQ or WAQI route with limit L whose
\* upstream supplies n records, k of them within the radius, returns exactly
\* min(L, k) records.
C3_ExactlyMinLK ==
    (AirRadiusAnswered(last) /\ AllSupplied(last))
        => Len(last.data) = Min(last.limit, WithinCount(last, last.held))

\* The upstream's n records all reach the filter: the WAQI feed supplies at
\* most 2L of them, each with truthy coordinates; OpenAQ holds at most L, or at
\* most 2L with a page cap of two or more.
AllReachFilter(r) ==
    /\ AllSupplied(r)
    /\ Len(r.held) <= 2 * r.limit
    /\ r.provider = "waqi" =>
          \A i \in 1..Len(r.held) : r.held[i].lat # 0 /\ r.held[i].lon # 0
    /\ r.provider = "openaq" => (Len(r.held) <= r.limit \/ r.maxPages >= 2)

\* C3 amended: a radius query of the OpenAQ or WAQI route with limit L >= 1
\* returns exactly min(L, k') records, k' counting the records within the
\* radius among those its searchByBounds calls accumulated; and exactly
\* min(L, k) whenever all n upstream records reach the filter.
C3_ExactlyMinOfAccumulated ==
    (AirRadiusAnswered(last) /\ last.limit >= 1)
        => /\ Len(last.data) = Min(last.limit, AccumulatedWithin(last))
           /\ AllReachFilter(last)
                 => Len(last.data) = Min(last.limit, WithinCount(last, last.held))

\* C3 witness: the upstream supplied two records within the radius to a query
\* with limit 1, which returned one record.
C3_Witness ==
    /\ AirRadiusAnswered(last) /\ AllReachFilter(last)
    /\ last.limit = 1
    /\ WithinCount(last, last.held) = 2
    /\ Len(last.data) = 1

----------------------------------------------------------------------------
(* Properties of the caches *)

\* The time-to-live of the cache query r went through.
TTLOf(r) == IF r.provider = "healthcare" THEN HC_CACHE_DURATION ELSE CACHE_DURATION

\* Age, at lookup c, of the entry the lookup found under its key.
AgeAt(c) == c.time - c.entry[1]

\* C4: a cache lookup (getCachedData of the OpenAQ and WAQI routes, the
\* searchCache check of searchNearbyHealthcare) returns a stored payload only
\* if now - insertion timestamp does not exceed the TTL; a lookup that finds an
\* expired entry is a miss and makes a fresh upstream request.
C4_NeverStale ==
    \A i \in 1..Len(last.call) :
        LET c == last.call[i]
        IN /\ c.hit => (c.entry # <<>> /\ AgeAt(c) <= TTLOf(last))
           /\ (c.entry # <<>> /\ AgeAt(c) > TTLOf(last)) => (~c.hit /\ c.calls = 1)

\* C4 witness: a lookup found an entry older than the TTL and went upstream.
C4_Witness ==
    \E i \in 1..Len(last.call) :
        LET c == last.call[i]
        IN c.entry # <<>> /\ AgeAt(c) > TTLOf(last) /\ ~c.hit /\ c.calls = 1

InsertedAt(c) == IF c.hit THEN c.entry[1] ELSE c.time

\* The type filter of a healthcare search ({}: none).
TypesOf(r) == IF Has(r.body.options, "types") THEN r.body.options.types ELSE {}

\* Two healthcare searches select alike from the cached list.
SameSelection(r1, r2) ==
    r1.provider = "healthcare" => (r1.limit = r2.limit /\ TypesOf(r1) = TypesOf(r2))

----------------------------------------------------------------------------
(* Properties of the healthcare merge *)

\* The element carries coordinates (its own or its centre's).
Resolved(element) == HC_coord(element, "lat") # 0 /\ HC_coord(element, "lon") # 0

\* Same name and same coordinates after rounding to 4 decimal places.
SameNameAndPlace(name1, lat1, lon1, name2, lat2, lon2) ==
    /\ name1 = name2
    /\ toFixed4(lat1) = toFixed4(lat2)
    /\ toFixed4(lon1) = toFixed4(lon2)

SameElement(e1, e2) ==
    SameNameAndPlace(HC_name(e1), HC_coord(e1, "lat"), HC_coord(e1, "lon"),
                     HC_name(e2), HC_coord(e2, "lat"), HC_coord(e2, "lon"))

\* The first of the elements that is the same as element i.
FirstSeen(elements, i) ==
    CHOOSE m \in 1..i :
        /\ Resolved(elements[m]) /\ SameElement(elements[m], elements[i])
        /\ \A n \in 1..(m - 1) :
              ~(Resolved(elements[n]) /\ SameElement(elements[n], elements[i]))

\* C6: when Overpass supplies two elements that resolve to the same name and
\* to the same coordinates rounded to 4 decimals, parseOverpassResponse yields
\* exactly one record for them, and it is the first-seen element unchanged.
C6_FirstSeenWins ==
    (last.provider = "healthcare" /\ last.status = 200)
        => LET elements == last.held
               parsed == last.call[1].parsed
           IN \A i, j \in 1..Len(elements) :
                 (i < j /\ Resolved(elements[i]) /\ Resolved(elements[j])
                    /\ SameElement(elements[i], elements[j]))
                    => LET first == elements[FirstSeen(elements, i)]
                           same == { k \in 1..Len(parsed) :
                                       SameNameAndPlace(parsed[k].name, parsed[k].lat,
                                                        parsed[k].lng, HC_name(first),
                                                        HC_coord(first, "lat"),
                                                        HC_coord(first, "lon")) }
                       IN /\ Cardinality(same) = 1
                          /\ \A k \in same :
                                /\ parsed[k].id = <<"osm", first.type, first.id>>
                                /\ parsed[k].lat = HC_coord(first, "lat")
                                /\ parsed[k].lng = HC_coord(first, "lon")
                                /\ parsed[k].type = getFacilityType(first)

\* C6 witness: Overpass supplied E1 and then the nearer E2 of the same name and
\* rounded place; the parsed list holds E1 alone.
C6_Witness ==
    /\ last.provider = "healthcare" /\ last.status = 200
    /\ last.held = <<ElementE1, ElementE2>>
    /\ Len(last.call[1].parsed) = 1
    /\ last.call[1].parsed[1].id = <<"osm", "node", 1>>

----------------------------------------------------------------------------
(* Properties of the failure handling *)

\* C7: when the upstream request of an adapter call (OpenAQ searchByBounds,
\* WAQI searchByBounds, searchNearbyHealthcare) throws or answers a
\* non-success status, the call yields the empty result and the query
\* completes without a fatal error.
C7_FailureAbsorbed ==
    \A i \in 1..Len(last.call) :
        (last.call[i].calls = 1 /\ last.call[i].failed)
            => (~last.call[i].threw /\ last.call[i].ret = <<>> /\ last.status < 500)

\* C8: in each mode of the OpenAQ and WAQI POST handlers (radius, bounds,
\* single station), when every upstream consulted failed or had no data, the
\* answer is an empty result and never a 5xx status.
C8_NoServerError ==
    (last.provider \in {"openaq", "waqi"} /\ last.mode \in {"radius", "bounds", "single"}
       /\ last.nodata)
        => (last.status < 500 /\ last.data = <<>>)

\* C9: a POST in radius mode (OpenAQ, WAQI) with radius 0 or negative returns
\* no station, whatever the upstream holds.
C9_DegenerateRadius ==
    (last.provider \in {"openaq", "waqi"} /\ last.mode = "radius"
       /\ Has(last.body, "mode") /\ last.body.mode = "radius"
       /\ Has(last.body, "radius") /\ last.body.radius <= 0)
        => last.data = <<>>

----------------------------------------------------------------------------
(* Properties of the OpenAQ pagination *)

\* The page cap of a radius query: maxPages of the body, 5 by default.
PageCap(r) == IF Has(r.body, "maxPages") THEN r.body.maxPages ELSE 5

\* C10: in one OpenAQ radius query the pages are requested in sequence from
\* page 1; page p+1 is requested only if page p reported hasMore, fewer than
\* 2 x limit records were accumulated and p is below the page cap (default 5);
\* the upstream page requests number at most the cap.
C10_PaginationBounded ==
    (last.provider = "openaq" /\ last.mode = "radius")
        => LET c == last.call
           IN /\ \A p \in 1..Len(c) : c[p].page = p
              /\ \A p \in 1..(Len(c) - 1) :
                    /\ c[p].hasMore
                    /\ Len(Accumulated(SubSeq(c, 1, p))) < 2 * last.limit
                    /\ p < PageCap(last)
              /\ Cardinality({ p \in 1..Len(c) : c[p].calls = 1 }) <= PageCap(last)
              /\ Len(c) <= PageCap(last)

\* C10 witness: with a page cap of 1, page 1 came from the upstream reporting
\* hasMore with fewer than 2 x limit records, and no second page was requested.
C10_Witness ==
    /\ last.provider = "openaq" /\ last.mode = "radius"
    /\ PageCap(last) = 1
    /\ Len(last.call) = 1
    /\ last.call[1].calls = 1 /\ last.call[1].hasMore
    /\ Len(last.call[1].ret) < 2 * last.limit

----------------------------------------------------------------------------
(* Properties of the request validation *)

\* The coordinates of a POST body are missing or outside latitude [-90, 90],
\* longitude [-180, 180] (hundredths of a degree).
MalformedCoordinates(body) ==
    \/ ~Has(body, "lat") \/ ~Has(body, "lon")
    \/ body.lat < -9000 \/ body.lat > 9000
    \/ body.lon < -18000 \/ body.lon > 18000

\* C11: a POST to the OpenAQ or WAQI route whose coordinates are missing or
\* out of range is rejected with a validation error (status 400), and for it
\* no upstream request is made and the cache is not looked up.
C11_ValidationFirst ==
    (last.provider \in {"openaq", "waqi"} /\ MalformedCoordinates(last.body))
        => (last.status = 400 /\ last.fetches = 0 /\ last.call = <<>>)

----------------------------------------------------------------------------
(* Properties of the passport ledger *)

\* This step commits a logExposure: it appends an exposure.
Committing == Len(exposures') = Len(exposures) + 1

\* The exposure a committing step appends, and its user.
Appended == exposures'[Len(exposures')]

\* The user of the appended exposure was active before this step.
ActiveBefore ==
    /\ Appended.profileId \in DOMAIN profiles
    /\ profiles[Appended.profileId].lastActiveDate # Never

\* C12: when logExposure records an event on date D, the streak grows by
\* exactly 1 if lastActiveDate was the day before D, stays as it was if
\* lastActiveDate was D, and becomes 1 otherwise (a gap of two or more days,
\* or no prior activity); afterwards lastActiveDate = D.
C12_StreakTransition ==
    [][Committing =>
         LET u == Appended.profileId
             D == Appended.timestamp
         IN /\ profiles'[u].lastActiveDate = D
            /\ (ActiveBefore /\ profiles[u].lastActiveDate = D - 1)
                  => profiles'[u].streak = profiles[u].streak + 1
            /\ (ActiveBefore /\ profiles[u].lastActiveDate = D)
                  => profiles'[u].streak = profiles[u].streak
            /\ (~ActiveBefore \/ profiles[u].lastActiveDate \notin {D - 1, D})
                  => profiles'[u].streak = 1]_vars

\* C12 witness: events on day 1, day 2 and day 4 left the streak at 1 and the
\* best streak at 2.
C12_Witness ==
    /\ [i \in 1..Len(exposures) |-> exposures[i].timestamp] = <<1, 2, 4>>
    /\ "u1" \in DOMAIN profiles
    /\ profiles["u1"].streak = 1
    /\ profiles["u1"].bestStreak = 2
    /\ profiles["u1"].lastActiveDate = 4

\* C13: a logExposure on a date on which the user was already active leaves
\* streak and bestStreak as they were, and still awards points.
C13_SameDayIdempotent ==
    [][(Committing /\ ActiveBefore
          /\ profiles[Appended.profileId].lastActiveDate = Appended.timestamp)
         => LET u == Appended.profileId
            IN /\ profiles'[u].streak = profiles[u].streak
               /\ profiles'[u].bestStreak = profiles[u].bestStreak
               /\ profiles'[u].points > profiles[u].points]_vars

\* C13 witness: two events of one user on one date, the streak still 1.
C13_Witness ==
    /\ Len(exposures) = 2
    /\ exposures[1].profileId = exposures[2].profileId
    /\ exposures[1].timestamp = exposures[2].timestamp
    /\ profiles[exposures[1].profileId].streak = 1
    /\ profiles[exposures[1].profileId].bestStreak = 1

\* No profile is removed and no bestStreak is lowered by this step.
BestStreakKept ==
    \A u \in DOMAIN profiles :
        /\ u \in DOMAIN profiles'
        /\ profiles'[u].bestStreak >= profiles[u].bestStreak

\* The event this step records leaves bestStreak at the larger of the previous
\* bestStreak (0 for a profile created by this step) and the new streak.
BestStreakRaised ==
    LET who == Appended.profileId
        before == IF who \in DOMAIN profiles
                  THEN profiles[who].bestStreak ELSE 0
    IN profiles'[who].bestStreak = Max(before, profiles'[who].streak)

\* C14: bestStreak is a high-water mark.  In every state bestStreak >= streak;
\* no step (logExposure, ensureProfile or any other) lowers a profile's
\* bestStreak; and a step that records an event leaves
\* bestStreak = max(previous bestStreak, new streak).
C14_HighWaterMark ==
    /\ [](\A u \in DOMAIN profiles : profiles[u].bestStreak >= profiles[u].streak)
    /\ [][BestStreakKept /\ (Committing => BestStreakRaised)]_vars

\* C14 witness: after a reset the best streak stands above the current streak.
C14_Witness ==
    \E u \in DOMAIN profiles :
        /\ profiles[u].streak >= 1
        /\ profiles[u].bestStreak > profiles[u].streak

\* The scores of the readings that are logged.
Scores == { exposureScore(args) : args \in Readings }

\* No profile loses points in this step.
PointsKept ==
    \A u \in DOMAIN profiles : profiles'[u].points >= profiles[u].points

\* A profile that this step creates without recording an event has no points.
CreatedWithoutPoints ==
    \A u \in DOMAIN profiles' \ DOMAIN profiles :
        ~Committing => profiles'[u].points = 0

\* The points the event of this step adds to its user's profile.
Awarded ==
    LET who == Appended.profileId
    IN profiles'[who].points
         - (IF who \in DOMAIN profiles THEN profiles[who].points ELSE 0)

\* C15: points only increase.  A profile starts at 0 points; points are never
\* negative and never decrease; every recorded event raises them by a fixed
\* base amount plus a bonus scaled to the score, and the award for a higher
\* score is no smaller.
C15_PointsOnlyIncrease ==
    /\ [](\A u \in DOMAIN profiles : profiles[u].points >= 0)
    /\ [](\A s1, s2 \in Scores :
             s1 <= s2 => /\ 0 < PointsAward(s1)
                         /\ PointsAward(s1) <= PointsAward(s2))
    /\ [][PointsKept]_vars
    /\ [][CreatedWithoutPoints]_vars
    /\ [][Committing => Awarded = PointsAward(Appended.score)]_vars

\* C15 witness: one event of score 0 and one of score 100 are recorded and
\* the points are the two awards, the second the larger.
C15_Witness ==
    /\ Len(exposures) = 2
    /\ exposures[1].score = 0
    /\ exposures[2].score = 1000
    /\ profiles["u1"].points = PointsAward(0) + PointsAward(1000)
    /\ PointsAward(0) < PointsAward(1000)

\* The recorded events of a user, in the order they were recorded.
EventsOf(u) == SelectSeq(exposures, LAMBDA doc : doc.profileId = u)

\* The profile that results from applying the events one after the other.
RECURSIVE Replayed(_, _)
Replayed(profile, docs) ==
    IF docs = <<>> THEN profile
    ELSE Replayed(ApplyExposure(profile, Head(docs).timestamp, Head(docs).score),
                  Tail(docs))

\* C16: logExposure is atomic per user, crashes included: in every state
\* the profile of every user (points, streak, bestStreak, lastActiveDate) is
\* exactly what the recorded events of that user produce, and a user without
\* a profile has no recorded event.
C16_Atomic ==
    \A u \in Users :
        IF u \in DOMAIN profiles
        THEN profiles[u] = Replayed(NewProfile(u), EventsOf(u))
        ELSE EventsOf(u) = <<>>

\* C16 witness: a logExposure crashed mid-operation, another was recorded,
\* and the points are those of the one recorded event.
C16_Witness ==
    /\ \E c \in Clients : txn[c].status = "crashed"
    /\ Len(exposures) = 1
    /\ profiles[exposures[1].profileId].points = PointsAward(exposures[1].score)

\* The step keeps every recorded event and adds one.
EventAdded == SubSeq(exposures', 1, Len(exposures)) = exposures

\* The event of this step is applied to the profile as it stands now, every
\* earlier award included, and to no other profile.
AppliedToCurrent ==
    LET who == Appended.profileId
        current == IF who \in DOMAIN profiles
                   THEN profiles[who] ELSE NewProfile(who)
    IN /\ profiles'[who]
            = ApplyExposure(current, Appended.timestamp, Appended.score)
       /\ \A u \in DOMAIN profiles \ {who} : profiles'[u] = profiles[u]

\* The mutation of client c, which could commit before this step, can still
\* commit after an event of another user was recorded by it.
NotBlocked(c) ==
    (/\ txn[c].status = "running"
     /\ txn'[c] = txn[c]
     /\ txn[c].userKey # Appended.profileId
     /\ ~Conflicts(txn[c], profiles))
        => ~Conflicts(txn'[c], profiles')

\* C17: no update is lost under concurrency.  Every logExposure that
\* commits, whatever ran beside it, adds its event to the events recorded so
\* far and its award and streak step to the profile as it then stands, as in
\* a serial order; and a commit for one user never keeps a running mutation
\* of another user from committing.
C17_NoLostUpdate ==
    /\ [][Committing => (EventAdded /\ AppliedToCurrent)]_vars
    /\ [][Committing => \A c \in Clients : NotBlocked(c)]_vars

\* C17 witness: two clients logged for one user at the same time; one ran
\* again after the other committed; both events are recorded and the points
\* hold both awards.
C17_Witness ==
    /\ \A c \in Clients : txn[c].status = "committed"
    /\ \E c \in Clients : txn[c].retried
    /\ Len(exposures) = 2
    /\ exposures[1].profileId = exposures[2].profileId
    /\ profiles[exposures[1].profileId].points
         = PointsAward(exposures[1].score) + PointsAward(exposures[2].score)

\* A pollutant reading of an event, 0 when it was not supplied.
ReadingOf(doc, pollutant) ==
    IF pollutant \in DOMAIN doc.args THEN doc.args[pollutant] ELSE 0

\* 100 - (pm25 / 2 + no2 / 2.5 + co * 8) of an event, in tenths of a point.
RawScore(doc) ==
    1000 - ((ReadingOf(doc, "pm25") * 10) \div 2
            + (ReadingOf(doc, "no2") * 100) \div 25
            + ReadingOf(doc, "co") * 80)

\* C18: the score of every recorded event is
\* clamp(100 - (pm25/2 + no2/2.5 + co*8), 0, 100), a missing pollutant adding
\* no penalty; it lies in [0, 100]; and events with the same readings have the
\* same score.
C18_ScoreFormula ==
    \A i \in 1..Len(exposures) :
        LET doc == exposures[i]
        IN /\ doc.score >= 0
           /\ doc.score <= 1000
           /\ doc.score = Max(0, Min(1000, RawScore(doc)))
           /\ \A j \in 1..Len(exposures) :
                 exposures[j].args = doc.args => exposures[j].score = doc.score

\* C18 witness: recorded are an event whose penalties exceed 100 and whose
\* score is 0, an event with only a PM2.5 reading, and an event with no
\* reading at all, whose score is 100.
C18_Witness ==
    /\ Len(exposures) = 3
    /\ RawScore(exposures[1]) < 0 /\ exposures[1].score = 0
    /\ DOMAIN exposures[2].args = {"pm25"} /\ exposures[2].score = 900
    /\ exposures[3].args = <<>> /\ exposures[3].score = 1000

----------------------------------------------------------------------------
(* Properties of the caches under a changed limit *)

\* What query r returns when nothing is cached and the upstream supplies
\* `supplied`.
Uncached(r, supplied) ==
    LET resp == [outcome |-> "ok", results |-> supplied]
    IN IF r.provider = "waqi"
       THEN WAQI_POST(<<>>, r.time, r.body, resp).data
       ELSE searchNearbyHealthcare(<<>>, r.time, r.body.lat, r.body.lon,
                                   r.body.options, resp).ret

\* The second of two queries on one key of provider p was served from the
\* entry that the first stored, and asked for a larger limit.
LargerLimitFromCache(p) ==
    /\ prev.provider = p /\ last.provider = p
    /\ Len(prev.call) = 1 /\ Len(last.call) = 1
    /\ prev.call[1].key = last.call[1].key
    /\ prev.call[1].calls = 1 /\ ~prev.call[1].failed
    /\ last.call[1].hit
    /\ last.limit > prev.limit

\* C19: the caches of searchNearbyHealthcare and of the WAQI searches hold the
\* result before it is cut to the limit: a second query on the same key with
\* a larger limit, served from the cache within the TTL, returns what the
\* query would return uncached.
C19_CachedUntruncated ==
    \A p \in {"waqi", "healthcare"} :
        LargerLimitFromCache(p)
            => last.data = Uncached(last, prev.call[1].supplied)

----------------------------------------------------------------------------
(* Properties of the queries under a slow upstream *)

\* C20: a slow or unresponsive provider cannot stall a query: every query
\* that passed validation and awaits its upstream eventually returns, whether
\* or not the upstream ever settles the request.
C20_EventuallyReturns == (pending # {}) ~> (pending = {})

----------------------------------------------------------------------------
(* Properties of the queries in flight *)

\* C21: concurrent identical queries are deduplicated by the query key: while
\* a query awaits its upstream request, no second request for the same query
\* is sent upstream.
C21_Deduplicated ==
    \A q1, q2 \in pending : q1.body = q2.body => q1 = q2

----------------------------------------------------------------------------
(* Properties of the utilities *)

\* The radius of the step table at a whole zoom level.
TableRadius(level) == ZOOM_RADIUS_MAP[level]

\* The radius a zoom should have: the table value at a whole level, the
\* nearest end below 1 and above 18, and between two levels the linear
\* interpolation of their table values.
InterpolatedRadius(zoom) ==
    IF zoom <= 10 THEN TableRadius(1)
    ELSE IF zoom >= 180 THEN TableRadius(18)
    ELSE LET lower == zoom \div 10
             fraction == zoom % 10
         IN IF fraction = 0 THEN TableRadius(lower)
            ELSE TableRadius(lower)
                   + ((TableRadius(lower + 1) - TableRadius(lower)) * fraction) \div 10

\* C22: getRadiusFromZoom follows the step table from 2500 km at zoom 1 to
\* 0.4 km at zoom 18: below 1 the zoom-1 value, above 18 the zoom-18 value, at
\* a whole zoom its table value, between two steps the linear interpolation
\* of the neighbouring values; and it is non-increasing in zoom.
C22_StepTable ==
    calc.fn = "getRadiusFromZoom"
        => /\ calc.radius = InterpolatedRadius(calc.zoom)
           /\ \A lower \in Zooms :
                 lower <= calc.zoom => getRadiusFromZoom(lower) >= calc.radius

\* C23: the great-circle distance is symmetric and zero on identical points,
\* for each of the three implementations: distance(a, b) = distance(b, a)
\* and distance(a, a) = 0.
C23_Symmetric ==
    calc.fn = "calculateDistance" => (calc.ab = calc.ba /\ calc.aa = 0)

\* C23 witness: two points at different latitudes, the second to the west of
\* the first, are a positive distance apart, the same in both directions.
C23_Witness ==
    /\ calc.fn = "calculateDistance"
    /\ calc.a.lat # calc.b.lat
    /\ calc.b.lng < calc.a.lng
    /\ calc.ab > 0
    /\ calc.ab = calc.ba

----------------------------------------------------------------------------
(* Properties of the defaults *)

\* The request with the radius, limit and page cap it leaves out set to 100 km,
\* 100 and 5.
WithDefaults(body) == body @@ [radius |-> 100, limit |-> 100, maxPages |-> 5]

\* What a request brings about: its answer, the upstream calls it made and the
\* cache it leaves, all but the body it was sent with.
Effect(r) == [f \in DOMAIN r \ {"body"} |-> r[f]]

\* C24: a radius-mode request that omits radius, limit or the page cap is
\* answered exactly as the same request with radius 100 km, limit 100 and page
\* cap 5: whatever the cache holds and however the upstream answers, both get
\* the same status and data, by the same upstream calls, and leave the same cache.
C24_Defaults ==
    \A body \in DefaultBodies :
       /\ \A resp \in WAQI_ResponsesOf(TTL_AirData) :
            Effect(WAQI_POST(waqiCache, now, body, resp))
              = Effect(WAQI_POST(waqiCache, now, WithDefaults(body), resp))
       /\ \A held \in TTL_AirData, outcomes \in OpenAQ_Outcomes :
            Effect(OpenAQ_POST(openaqCache, now, body, held, outcomes))
              = Effect(OpenAQ_POST(openaqCache, now, WithDefaults(body), held, outcomes))

\* A radius query without radius, limit and page cap was answered, over 100 km,
\* with the station 49 km away and a nearer one, and the same query with the
\* three values given was answered before it on the same data.
C24_Witness ==
    /\ nreq = 2
    /\ last.body = Pt @@ [mode |-> "radius"]
    /\ prev.body = WithDefaults(last.body)
    /\ last.status = 200
    /\ last.radiusKm = 100
    /\ last.limit = 100
    /\ Len(last.data) = 2
    /\ last.data = prev.data

----------------------------------------------------------------------------
(* Properties of the location tracking *)

\* C25: the service holds at most one active geolocation watch, and only while
\* tracking: under every interleaving of starts, stops and answers to the
\* permission queries, after a stop and before the next start
\* isCurrentlyTracking() is false and no watch is registered, and no watch is
\* ever registered whose id the service has not stored.
C25_SingleWatch ==
    /\ Cardinality(tracker.watches) <= 1
    /\ tracker.stopped => (~tracker.isTracking /\ tracker.watches = {})
    /\ tracker.watches \subseteq {tracker.watchId}

\* The position that arrived as the i-th.
Arrived(i) == [lat |-> Pt.lat, lng |-> Pt.lon, timestamp |-> i]

\* The last k of the positions that arrived, the oldest first.
MostRecent(k) == [i \in 1..k |-> Arrived(tracker.fixes - k + i)]

\* C26: the location history is bounded: after n updates since it was last
\* empty it holds exactly the most recent min(n, 100) locations in arrival
\* order and never more than 100; clearLocationHistory empties it; and
\* getLocationHistory returns a copy, so that a caller changing the array it
\* got changes nothing of the history.
C26_BoundedHistory ==
    /\ [](/\ Len(tracker.locationHistory) <= 100
          /\ tracker.locationHistory
               = MostRecent(Min(tracker.fixes - tracker.clearedAt, 100)))
    /\ [][ClearHistory => tracker'.locationHistory = <<>>]_vars
    /\ [][GetHistory => tracker'.returned.array = tracker.locationHistory]_vars
    /\ [][CallerMutates => tracker'.locationHistory = tracker.locationHistory]_vars

\* More than 100 positions arrived since the history was last emptied, it holds
\* 100 of them, and a caller has emptied the array it was returned.
C26_Witness ==
    /\ tracker.clearedAt > 0
    /\ tracker.fixes - tracker.clearedAt > 100
    /\ Len(tracker.locationHistory) = 100
    /\ tracker.returned.held
    /\ tracker.returned.array = <<>>

----------------------------------------------------------------------------
(* Properties of the WAQI search by bounds *)

\* C27: WAQI searchByBounds returns at most `limit` stations on every call,
\* cached calls included.
C27_AtMostLimit ==
    last.provider = "waqi"
        => \A i \in 1..Len(last.call) : Len(last.call[i].ret) <= last.call[i].limit

----------------------------------------------------------------------------
(* Properties of the caches under upstream failures *)

\* The calls of the query that has just completed.
CallsOf(r) == { r.call[i] : i \in 1..Len(r.call) }

\* The keys under which `after` holds an entry that `before` does not hold.
Stored(before, after) ==
    { k \in DOMAIN after : k \notin DOMAIN before \/ after[k] # before[k] }

\* A query of provider p completes: every entry it stores is the answer to an
\* upstream request of its own that succeeded, and every such answer, an empty
\* one included, is stored.
StoresSuccessesOnly(p) ==
    (nreq' = nreq + 1 /\ last'.provider = p)
        => /\ \A k \in Stored(CacheOf(p), CacheOf(p)') :
                \E c \in CallsOf(last') : c.key = k /\ c.calls = 1 /\ ~c.failed
           /\ \A c \in CallsOf(last') :
                (c.calls = 1 /\ ~c.failed)
                    => /\ c.key \in DOMAIN CacheOf(p)'
                       /\ CacheOf(p)'[c.key].timestamp = now
           /\ \A c \in CallsOf(last') :
                (c.calls = 1 /\ c.failed) => c.key \notin Stored(CacheOf(p), CacheOf(p)')

\* C28: a failed upstream response (a non-success status, a WAQI status other
\* than ok, a fetch that throws) is never cached: only the successful
\* responses, the empty ones included, are stored.
C28_FailuresNotCached ==
    [][\A p \in {"openaq", "waqi", "healthcare"} : StoresSuccessesOnly(p)]_vars

\* An upstream request failed, the same query was sent upstream again at the
\* same minute, and its empty answer was stored.
C28_Witness ==
    /\ nreq = 2
    /\ Len(prev.call) = 1 /\ Len(last.call) = 1
    /\ prev.call[1].calls = 1 /\ prev.call[1].failed
    /\ last.call[1].key = prev.call[1].key
    /\ last.time = prev.time
    /\ last.call[1].calls = 1 /\ ~last.call[1].failed
    /\ last.call[1].supplied = <<>>
    /\ last.call[1].key \in DOMAIN CacheOf(last.provider)

----------------------------------------------------------------------------
(* Properties of the healthcare search from several origins *)

\* C29: every facility returned by searchNearbyHealthcare carries the distance
\* computed from the origin of that call, and the list is ordered by that
\* distance, also when the call is answered from the cache.
C29_DistanceFromOrigin ==
    (last.provider = "healthcare" /\ last.status = 200)
        => /\ \A i \in 1..Len(last.data) :
                last.data[i].distance
                  = HC_calculateDistance(last.body.lat, last.body.lon,
                                         last.data[i].lat, last.data[i].lng)
           /\ \A i, j \in 1..Len(last.data) :
                i < j => last.data[i].distance <= last.data[j].distance

----------------------------------------------------------------------------
(* Properties of the watchdog *)

\* A round of the watchdog with DEPLOY_TARGET set.
Checked == HealthCheck /\ watchdog.target

Redeploying == watchdog'.redeploy # "none"

\* C30: the watchdog redeploys only after 3 consecutive failed health checks
\* (000, 502 or 503) and never while its counter is below 3; a healthy check
\* resets the counter to 0 and so does a successful redeploy; after a failed
\* redeploy the counter stays at or above 3, and the next failed check attempts
\* the redeploy again.
C30_Watchdog ==
    /\ [][(Checked /\ Redeploying)
            => /\ watchdog'.code \in FailedCodes
               /\ watchdog'.streak >= 3
               /\ watchdog.CONSECUTIVE_FAILURES + 1 >= 3]_vars
    /\ [][(Checked /\ watchdog'.code \notin FailedCodes)
            => (watchdog'.CONSECUTIVE_FAILURES = 0 /\ ~Redeploying)]_vars
    /\ [][(Checked /\ watchdog'.redeploy = "ok")
            => watchdog'.CONSECUTIVE_FAILURES = 0]_vars
    /\ [][(Checked /\ watchdog'.redeploy = "failed")
            => watchdog'.CONSECUTIVE_FAILURES >= 3]_vars
    /\ [][(Checked /\ watchdog.redeploy = "failed" /\ watchdog'.code \in FailedCodes)
            => Redeploying]_vars

\* A redeploy failed at the third failed check in a row and was attempted again,
\* and failed again, at the fourth.
C30_Witness ==
    /\ watchdog.streak = 4
    /\ watchdog.CONSECUTIVE_FAILURES = 4
    /\ watchdog.redeploy = "failed"

====
